---- MODULE Spec2Model ----
(***************************************************************************)
(* A model of the resilient e-mail service: the sliding-window RateLimiter,*)
(* the CircuitBreaker, the priority EmailQueue and the EmailService that   *)
(* composes them.  Time is the value Date.now() returns, counted in ticks. *)
(* Every `await` of the source is a point where another caller may run.    *)
(***************************************************************************)
EXTENDS Integers, Sequences, FiniteSets, TLC

(* ------------------------------ bounds -------------------------------- *)

\* The clock stops at MaxTime.
MaxTime == 4
\* The limits and windows a RateLimiter is constructed or configured with.
MaxLimit == 2
MaxWindow == 2
\* The thresholds and timeouts a CircuitBreaker is constructed with.
MaxThreshold == 2
MaxTimeout == 2
\* The priorities given to EmailQueue.add and the number of add calls.
MaxPriority == 2
MaxAdds == 3
\* The batch sizes handed to EmailQueue.processBatch.
MaxBatch == 2
\* The attempt numbers calculateRetryDelay is evaluated at.
MaxAttemptNo == 4

\* The EmailService as constructed: the retry options, the breaker of each
\* provider and the rate limiter, scaled down to a few attempts and ticks.
maxRetries == 2
initialRetryDelay == 1
maxRetryDelay == 2
ServiceThreshold == 2
ServiceTimeout == 2
ServiceLimit == 1
ServiceWindow == 2
\* A rate limit that admits every call made, as the constructor's 100 does.
RaceLimit == 2
\* The calls of sendEmail and queueEmail made on the service, in all, and
\* the time at which the clock of the service and of the queue stops.
MaxCalls == 2
MaxClock == 2

\* this.providers holds two providers, and one breaker for each.
NumProviders == 2
Providers == 0..(NumProviders - 1)

\* The ids that requests carry and the callers of sendEmail that may overlap;
\* processQueue sends on behalf of DrainProc.
Ids == {"a", "b"}
Procs == {1, 2}
DrainProc == 2
\* The attempts arrays that can be referenced at once (one per record, one
\* held by each running sendEmail); 0 is an undefined `attempts`.
Refs == 1..(Cardinality(Ids) + Cardinality(Procs))
Undefined == 0

\* The callers that may have a call through the stand-alone breaker in flight.
Callers == {1, 2}
\* The payloads handed to the stand-alone queue.
Payloads == {"a", "b"}
\* The processBatch calls on the stand-alone queue that may overlap.
Runs == {1, 2}

\* null of the source (nextAttempt, lastFailureTime before any failure).
Null == -1

\* A number as JavaScript's relational operators see it: null counts as 0.
Num(x) == IF x = Null THEN 0 ELSE x

VARIABLES
  now,              \* Date.now()
  rateLimiter,      \* a RateLimiter: [limit, windowMs, requests]
  rlOut,            \* the last RateLimiter operation and what it returned
  rlAdmitted,       \* history: the times of the requests admitted since construction or reset
  rlReconfigured,   \* history: configure() was called since construction or reset
  breaker,          \* a CircuitBreaker: [threshold, timeout, failureCount, state, nextAttempt, lastFailureTime]
  cbCalls,          \* per caller: the position of its call() and how its last call ended
  cbFired,          \* the onStateChange notifications fired by the last breaker operation
  cbStreak,         \* history: failed calls since the last successful call, reset or construction
  cbStreakFromClosed, \* history: the breaker was CLOSED when that streak began
  cbAbsorbed,       \* history: a successful call found the breaker CLOSED with failures counted, since construction or reset
  emailQueue,       \* an EmailQueue: [queue, processing]
  qNextId,          \* the number of ids generateId() has handed out
  qOut,             \* the last EmailQueue operation and what it returned
  batchRuns,        \* per processBatch call: where it is, its locals and how the last one ended
  batchHist,        \* history: per running processBatch, the queue it found and whether another queue operation cut in
  sentEmails,       \* EmailService: the Set of ids sent
  emailStatuses,    \* EmailService: the Map id -> status record (status "absent": no entry)
  attemptsHeap,     \* the attempts arrays, by reference
  circuitBreakers,  \* EmailService: one CircuitBreaker per provider
  currentProviderIndex, \* EmailService: the provider tried first
  procs,            \* per caller: where its sendEmail is and its local variables
  sendOut,          \* per caller: what its last sendEmail returned (or that it threw)
  drain,            \* processQueue: off, or holding a popped item, or awaiting its sendEmail
  drainHist,        \* history: the ids the running processQueue popped, and whether reset or queueEmail cut in
  returnedSent,     \* history: the ids for which a sendEmail returned "sent" since the last reset
  sendHist,         \* history: per caller, how its sendEmail in flight began and whether it was overlapped
  calls             \* history: the number of sendEmail and queueEmail calls made so far

rlVars == <<rateLimiter, rlOut, rlAdmitted, rlReconfigured>>
cbVars == <<breaker, cbCalls, cbFired, cbStreak, cbStreakFromClosed, cbAbsorbed>>
qVars == <<emailQueue, qNextId, qOut, batchRuns, batchHist>>
svcVars == <<sentEmails, emailStatuses, attemptsHeap, circuitBreakers,
             currentProviderIndex, procs, sendOut, drain, drainHist, returnedSent, sendHist,
             calls>>
vars == <<now, rlVars, cbVars, qVars, svcVars>>

\* Date.now() moves on.
Tick ==
  /\ now < MaxTime
  /\ now' = now + 1

\* Date.now() moves on while the EmailService or the EmailQueue runs.
ServiceTick ==
  /\ now < MaxClock
  /\ now' = now + 1

(* ---------------------------- RateLimiter ------------------------------ *)

RL_new(limit, windowMs) ==
  [limit |-> limit, windowMs |-> windowMs, requests |-> <<>>]

\* Variant: a timestamp exactly windowMs old is still counted.
RL_keep_inclusive(windowStart, timestamp) == timestamp >= windowStart

RL_keep(windowStart, timestamp) == timestamp > windowStart

RL_cleanupOldRequests(rl, t) ==
  LET windowStart == t - rl.windowMs
  IN  [rl EXCEPT !.requests = SelectSeq(@, LAMBDA ts : RL_keep(windowStart, ts))]

\* Variant: one request too many is admitted.
RL_underLimit_orEqual(rl) == Len(rl.requests) <= rl.limit

RL_underLimit(rl) == Len(rl.requests) < rl.limit

\* allowRequest(): the limiter afterwards and the value returned.
RL_allowRequest(rl, t) ==
  LET c == RL_cleanupOldRequests(rl, t)
  IN  IF RL_underLimit(c)
      THEN [rl |-> [c EXCEPT !.requests = Append(@, t)], ok |-> TRUE]
      ELSE [rl |-> c, ok |-> FALSE]

RL_reset(rl) == [rl EXCEPT !.requests = <<>>]

\* getRemainingRequests(): the limiter afterwards (getRequestCount cleans
\* up) and the value returned.
RL_getRemainingRequests(rl, t) ==
  LET c == RL_cleanupOldRequests(rl, t)
      left == c.limit - Len(c.requests)
  IN  [rl |-> c, n |-> IF left > 0 THEN left ELSE 0]

\* Variant of configure(): the timestamps are dropped with the old parameters.
RL_configure_clears(rl, limit, windowMs) ==
  [rl EXCEPT !.limit = limit, !.windowMs = windowMs, !.requests = <<>>]

RL_configure(rl, limit, windowMs) ==
  [rl EXCEPT !.limit = limit, !.windowMs = windowMs]

RLInit(limit, windowMs) ==
  /\ rateLimiter = RL_new(limit, windowMs)
  /\ rlOut = [op |-> "new", ok |-> FALSE, n |-> 0]
  /\ rlAdmitted = <<>>
  /\ rlReconfigured = FALSE

RLAllowRequest ==
  LET r == RL_allowRequest(rateLimiter, now)
  IN  /\ rateLimiter' = r.rl
      /\ rlOut' = [op |-> "allowRequest", ok |-> r.ok, n |-> 0]
      /\ rlAdmitted' = IF r.ok THEN Append(rlAdmitted, now) ELSE rlAdmitted
      /\ UNCHANGED rlReconfigured

RLGetRequestCount ==
  LET c == RL_cleanupOldRequests(rateLimiter, now)
  IN  /\ rateLimiter' = c
      /\ rlOut' = [op |-> "getRequestCount", ok |-> FALSE, n |-> Len(c.requests)]
      /\ UNCHANGED <<rlAdmitted, rlReconfigured>>

RLGetRemainingRequests ==
  LET r == RL_getRemainingRequests(rateLimiter, now)
  IN  /\ rateLimiter' = r.rl
      /\ rlOut' = [op |-> "getRemainingRequests", ok |-> FALSE, n |-> r.n]
      /\ UNCHANGED <<rlAdmitted, rlReconfigured>>

RLReset ==
  /\ rateLimiter' = RL_reset(rateLimiter)
  /\ rlOut' = [op |-> "reset", ok |-> FALSE, n |-> 0]
  /\ rlAdmitted' = <<>>
  /\ rlReconfigured' = FALSE

RLConfigure ==
  \E limit \in 0..MaxLimit, windowMs \in 1..MaxWindow :
    /\ rateLimiter' = RL_configure(rateLimiter, limit, windowMs)
    /\ rlOut' = [op |-> "configure", ok |-> FALSE, n |-> 0]
    /\ rlReconfigured' = TRUE
    /\ UNCHANGED rlAdmitted

(* --------------------------- CircuitBreaker ---------------------------- *)

CB_new(threshold, timeout) ==
  [threshold |-> threshold, timeout |-> timeout, failureCount |-> 0,
   state |-> "CLOSED", nextAttempt |-> Null, lastFailureTime |-> Null]

\* Variant: an OPEN breaker rejects whatever the time is.
CB_rejects_whileOpen(b, t) == b.state = "OPEN"

\* Variant: the guard reads the time of the last failure, not nextAttempt.
CB_rejects_lastFailure(b, t) == b.state = "OPEN" /\ t < Num(b.lastFailureTime)

\* The guard of call(): the breaker is OPEN and its timeout has not elapsed.
CB_rejects(b, t) == b.state = "OPEN" /\ t < Num(b.nextAttempt)

\* Variant of call() up to the invocation of fn: a rejection is notified.
CB_callEnter_notifies(b, t) ==
  IF b.state = "OPEN"
  THEN IF CB_rejects(b, t)
       THEN [cb |-> b, fired |-> <<"OPEN">>, invoked |-> FALSE]
       ELSE [cb |-> [b EXCEPT !.state = "HALF_OPEN"],
             fired |-> <<"HALF_OPEN">>, invoked |-> TRUE]
  ELSE [cb |-> b, fired |-> <<>>, invoked |-> TRUE]

\* call() up to the invocation of fn: the breaker afterwards, the
\* notifications fired and whether fn is invoked (else the call throws).
CB_callEnter(b, t) ==
  IF b.state = "OPEN"
  THEN IF CB_rejects(b, t)
       THEN [cb |-> b, fired |-> <<>>, invoked |-> FALSE]
       ELSE [cb |-> [b EXCEPT !.state = "HALF_OPEN"],
             fired |-> <<"HALF_OPEN">>, invoked |-> TRUE]
  ELSE [cb |-> b, fired |-> <<>>, invoked |-> TRUE]

\* Variant: closing from HALF_OPEN keeps the failures counted so far.
CB_onSuccess_keepsCount(b) ==
  IF b.state = "HALF_OPEN"
  THEN [cb |-> [b EXCEPT !.state = "CLOSED"], fired |-> <<"CLOSED">>]
  ELSE IF b.state = "CLOSED"
       THEN [cb |-> [b EXCEPT !.failureCount = 0], fired |-> <<>>]
       ELSE [cb |-> b, fired |-> <<>>]

\* Variant: a success clears the failure count whatever the state is.
CB_onSuccess_alwaysClears(b) ==
  IF b.state = "HALF_OPEN"
  THEN [cb |-> [b EXCEPT !.state = "CLOSED", !.failureCount = 0],
        fired |-> <<"CLOSED">>]
  ELSE [cb |-> [b EXCEPT !.failureCount = 0], fired |-> <<>>]

\* Variant: a success while CLOSED leaves the failure count as it is.
CB_onSuccess_closedKeeps(b) ==
  IF b.state = "HALF_OPEN"
  THEN [cb |-> [b EXCEPT !.state = "CLOSED", !.failureCount = 0],
        fired |-> <<"CLOSED">>]
  ELSE [cb |-> b, fired |-> <<>>]

CB_onSuccess(b) ==
  IF b.state = "HALF_OPEN"
  THEN [cb |-> [b EXCEPT !.state = "CLOSED", !.failureCount = 0],
        fired |-> <<"CLOSED">>]
  ELSE IF b.state = "CLOSED"
       THEN [cb |-> [b EXCEPT !.failureCount = 0], fired |-> <<>>]
       ELSE [cb |-> b, fired |-> <<>>]

\* Variant: the breaker opens one failure late.
CB_tripped_late(count, threshold) == count > threshold

\* Variant: the breaker opens only when the count equals the threshold.
CB_tripped_exact(count, threshold) == count = threshold

CB_tripped(count, threshold) == count >= threshold

CB_onFailure(b, t) ==
  LET c == [b EXCEPT !.failureCount = @ + 1, !.lastFailureTime = t]
  IN  IF CB_tripped(c.failureCount, c.threshold)
      THEN [cb |-> [c EXCEPT !.state = "OPEN", !.nextAttempt = t + c.timeout],
            fired |-> <<"OPEN">>]
      ELSE [cb |-> c, fired |-> <<>>]

CB_getState(b) == b.state

CB_isOpen(b, t) == b.state = "OPEN" /\ t < Num(b.nextAttempt)

CB_getFailureCount(b) == b.failureCount

\* Variant of reset(): the breaker closes but keeps its failure count.
CB_reset_keepsCount(b) ==
  [cb |-> [b EXCEPT !.state = "CLOSED", !.nextAttempt = Null, !.lastFailureTime = Null],
   fired |-> <<"CLOSED">>]

CB_reset(b) ==
  [cb |-> [b EXCEPT !.state = "CLOSED", !.failureCount = 0,
                    !.nextAttempt = Null, !.lastFailureTime = Null],
   fired |-> <<"CLOSED">>]

CBInit(threshold, timeout) ==
  /\ breaker = CB_new(threshold, timeout)
  /\ cbCalls = [c \in Callers |-> [pc |-> "idle", trial |-> FALSE, out |-> "none"]]
  /\ cbFired = <<>>
  /\ cbStreak = 0
  /\ cbStreakFromClosed = TRUE
  /\ cbAbsorbed = FALSE

\* Caller c calls call(fn): rejected at once, or fn is invoked and pending.
CBCall(c) ==
  /\ cbCalls[c].pc = "idle"
  /\ LET r == CB_callEnter(breaker, now)
     IN  /\ breaker' = r.cb
         /\ cbFired' = r.fired
         /\ cbCalls' = [cbCalls EXCEPT ![c] =
              IF r.invoked
              THEN [pc |-> "invoked", trial |-> (breaker.state = "OPEN"), out |-> "none"]
              ELSE [pc |-> "idle", trial |-> FALSE, out |-> "circuit_open"]]
  /\ UNCHANGED <<cbStreak, cbStreakFromClosed, cbAbsorbed>>

\* fn() of caller c settles; call() runs onSuccess/onFailure and returns the
\* result or rethrows the error.
CBSettle(c, ok) ==
  /\ cbCalls[c].pc = "invoked"
  /\ LET r == IF ok THEN CB_onSuccess(breaker) ELSE CB_onFailure(breaker, now)
     IN  /\ breaker' = r.cb
         /\ cbFired' = r.fired
         /\ cbStreak' = IF ok THEN 0 ELSE cbStreak + 1
         /\ cbStreakFromClosed' = IF ok THEN r.cb.state = "CLOSED" ELSE cbStreakFromClosed
         /\ cbAbsorbed' = (cbAbsorbed \/ (ok /\ breaker.state = "CLOSED"
                                              /\ breaker.failureCount > 0))
  /\ cbCalls' = [cbCalls EXCEPT ![c] =
       [pc |-> "idle", trial |-> @.trial, out |-> IF ok THEN "result" ELSE "error"]]

CBReset ==
  /\ LET r == CB_reset(breaker)
     IN  /\ breaker' = r.cb
         /\ cbFired' = r.fired
  /\ cbStreak' = 0
  /\ cbStreakFromClosed' = TRUE
  /\ cbAbsorbed' = FALSE
  /\ UNCHANGED cbCalls

(* ----------------------------- EmailQueue ------------------------------ *)

Q_new == [queue |-> <<>>, processing |-> FALSE]

InsertAt(s, i, x) == SubSeq(s, 1, i - 1) \o <<x>> \o SubSeq(s, i, Len(s))

RemoveAt(s, i) == SubSeq(s, 1, i - 1) \o SubSeq(s, i + 1, Len(s))

\* Variant: the new item also goes before queued items of equal priority.
Q_before_orEqual(queuedPriority, priority) == queuedPriority >= priority

\* The test of add()'s scan: the new item goes before this queued item.
Q_before(queuedPriority, priority) == queuedPriority > priority

\* Variant of add()'s position: the new item always goes to the front.
Q_insertIndex_front(queue, priority) == 1

\* add(): the (1-based) position the new item is spliced in at.
Q_insertIndex(queue, priority) ==
  LET hits == {i \in 1..Len(queue) : Q_before(queue[i].priority, priority)}
  IN  IF hits = {} THEN Len(queue) + 1
      ELSE CHOOSE i \in hits : \A j \in hits : i <= j

Q_add(q, emailData, priority, t, id) ==
  LET queueItem == [emailData |-> emailData, priority |-> priority,
                    timestamp |-> t, id |-> id]
  IN  [q EXCEPT !.queue = InsertAt(@, Q_insertIndex(@, priority), queueItem)]

\* next(): the queue afterwards and the emailData returned ("null" when empty).
Q_next(q) ==
  IF Len(q.queue) = 0
  THEN [q |-> q, emailData |-> "null"]
  ELSE [q |-> [q EXCEPT !.queue = Tail(@)], emailData |-> Head(q.queue).emailData]

Q_isEmpty(q) == Len(q.queue) = 0

Q_size(q) == Len(q.queue)

Q_clear(q) == [q EXCEPT !.queue = <<>>, !.processing = FALSE]

Q_findIndex(queue, id) ==
  LET hits == {i \in 1..Len(queue) : queue[i].id = id}
  IN  IF hits = {} THEN 0
      ELSE CHOOSE i \in hits : \A j \in hits : i <= j

Q_remove(q, id) ==
  LET index == Q_findIndex(q.queue, id)
  IN  IF index # 0
      THEN [q |-> [q EXCEPT !.queue = RemoveAt(@, index)], ok |-> TRUE]
      ELSE [q |-> q, ok |-> FALSE]

\* History of a processBatch call that is running: the e-mails that were
\* queued when it began, in queue order, and whether another operation on
\* the queue (add, next, remove, clear, another processBatch) cut in.
NoBatchHistory == [atStart |-> <<>>, disturbed |-> FALSE]

\* History: the running processBatch calls other than r are cut in on.
CutInOn(hist, runs, r) ==
  [x \in Runs |-> IF x # r /\ runs[x].pc # "idle"
                  THEN [hist[x] EXCEPT !.disturbed = TRUE] ELSE hist[x]]

\* A processBatch call that is not running.
IdleRun ==
  [pc |-> "idle", batchSize |-> 0, i |-> 0, emailData |-> "null",
   batch |-> <<>>, results |-> <<>>, out |-> "none"]

QInit ==
  /\ emailQueue = Q_new
  /\ qNextId = 0
  /\ qOut = [op |-> "new", emailData |-> "null", ok |-> FALSE]
  /\ batchRuns = [r \in Runs |-> IdleRun]
  /\ batchHist = [r \in Runs |-> NoBatchHistory]

\* add(emailData, priority); generateId() hands out an id never used before.
QAdd(emailData, priority) ==
  /\ qNextId < MaxAdds
  /\ qNextId' = qNextId + 1
  /\ emailQueue' = Q_add(emailQueue, emailData, priority, now, qNextId + 1)
  /\ qOut' = [op |-> "add", emailData |-> emailData, ok |-> TRUE]

QNext ==
  LET r == Q_next(emailQueue)
  IN  /\ emailQueue' = r.q
      /\ qOut' = [op |-> "next", emailData |-> r.emailData, ok |-> r.emailData # "null"]
      /\ UNCHANGED qNextId

QRemove(id) ==
  LET r == Q_remove(emailQueue, id)
  IN  /\ emailQueue' = r.q
      /\ qOut' = [op |-> "remove", emailData |-> "null", ok |-> r.ok]
      /\ UNCHANGED qNextId

QClear ==
  /\ emailQueue' = Q_clear(emailQueue)
  /\ qOut' = [op |-> "clear", emailData |-> "null", ok |-> FALSE]
  /\ UNCHANGED qNextId

\* processBatch leaves through `finally`: the flag is cleared, the locals go.
PB_finally(q, run, out) ==
  [q |-> [q EXCEPT !.processing = FALSE],
   run |-> [IdleRun EXCEPT !.results = run.results, !.out = out]]

\* The head of the while loop of processBatch and of the for loop within:
\* an empty queue ends the run, else next() takes an item and is awaited.
PB_while(q, run) ==
  IF Q_isEmpty(q) \/ ~(0 < run.batchSize)
  THEN PB_finally(q, run, "results")
  ELSE LET r == Q_next(q)
       IN  [q |-> r.q,
            run |-> [run EXCEPT !.pc = "fetching", !.i = 0, !.batch = <<>>,
                                !.emailData = r.emailData]]

\* processBatch resumes after `await this.next()`: the item joins the batch,
\* and either next() is called again or the processor is called on each item
\* of the batch (a call that throws ends the run through `finally`).
PB_afterNext(q, run, throws) ==
  LET batch == IF run.emailData # "null" THEN Append(run.batch, run.emailData)
               ELSE run.batch
      i == run.i + 1
  IN  IF i < run.batchSize /\ ~Q_isEmpty(q)
      THEN LET r == Q_next(q)
           IN  [q |-> r.q,
                run |-> [run EXCEPT !.i = i, !.batch = batch, !.emailData = r.emailData]]
      ELSE IF Len(batch) = 0 THEN PB_finally(q, run, "results")
      ELSE IF throws THEN PB_finally(q, run, "error")
      ELSE [q |-> q,
            run |-> [run EXCEPT !.pc = "processing", !.i = i, !.batch = batch,
                                !.emailData = "null"]]

\* The value Promise.all resolves to: per item the processor's result, or
\* the captured error with the item's emailData.
PB_batchResults(batch, failed) ==
  [k \in 1..Len(batch) |-> [emailData |-> batch[k], error |-> failed[k]]]

\* An operation of another caller on the queue: history takes note.
CutsIn == batchHist' = CutInOn(batchHist, batchRuns, 0)

\* History when the run r moves on: it goes with the run.
BatchHistoryAfter(hist, r, run) ==
  [hist EXCEPT ![r] = IF run.pc = "idle" THEN NoBatchHistory ELSE @]

\* processBatch(processor, batchSize) is called, up to its first await.
PBStart(r, batchSize) ==
  /\ batchRuns[r].pc = "idle"
  /\ IF emailQueue.processing
     THEN /\ batchRuns' = [batchRuns EXCEPT ![r] = [IdleRun EXCEPT !.out = "already_processing"]]
          /\ UNCHANGED <<emailQueue, batchHist>>
     ELSE LET w == PB_while([emailQueue EXCEPT !.processing = TRUE],
                            [IdleRun EXCEPT !.batchSize = batchSize])
              others == {x \in Runs : x # r /\ batchRuns[x].pc # "idle"}
              began == [atStart |-> [k \in 1..Q_size(emailQueue) |->
                                       emailQueue.queue[k].emailData],
                        disturbed |-> others # {}]
          IN  /\ emailQueue' = w.q
              /\ batchRuns' = [batchRuns EXCEPT ![r] = w.run]
              /\ batchHist' = BatchHistoryAfter(
                                [CutInOn(batchHist, batchRuns, r) EXCEPT ![r] = began],
                                r, w.run)
  /\ UNCHANGED <<qNextId, qOut>>

\* `await this.next()` is over.
PBFetched(r, throws) ==
  /\ batchRuns[r].pc = "fetching"
  /\ LET w == PB_afterNext(emailQueue, batchRuns[r], throws)
     IN  /\ throws => w.run.out = "error"
         /\ emailQueue' = w.q
         /\ batchRuns' = [batchRuns EXCEPT ![r] = w.run]
         /\ batchHist' = BatchHistoryAfter(CutInOn(batchHist, batchRuns, r), r, w.run)
  /\ UNCHANGED <<qNextId, qOut>>

\* `await Promise.all(batchPromises)` is over; the while loop goes round.
PBSettled(r, failed) ==
  /\ batchRuns[r].pc = "processing"
  /\ LET run == [batchRuns[r] EXCEPT
                   !.results = @ \o PB_batchResults(batchRuns[r].batch, failed)]
         w == PB_while(emailQueue, run)
     IN  /\ emailQueue' = w.q
         /\ batchRuns' = [batchRuns EXCEPT ![r] = w.run]
         /\ batchHist' = BatchHistoryAfter(CutInOn(batchHist, batchRuns, r), r, w.run)
  /\ UNCHANGED <<qNextId, qOut>>

(* ----------------------------- EmailService ---------------------------- *)

AbsentStatus ==
  [status |-> "absent", success |-> FALSE, attempts |-> Undefined,
   message |-> "none", provider |-> Null]

IdleLocals ==
  [pc |-> "idle", emailId |-> "null", providerIndex |-> 0, actual |-> 0,
   attempt |-> 0, currentStatus |-> Undefined, providersAttempted |-> 0,
   outcome |-> "none", ret |-> "none", wakeAt |-> 0]

\* History of a sendEmail in flight: the providers whose breaker was open
\* and the value of currentProviderIndex when it began, whether a reset or a
\* sendEmail with the same id overlapped it, and whether another sendEmail
\* changed currentProviderIndex under it, whether it has written a success
\* entry into the attempts array it holds, the providers its outer loop
\* has looked at (skipped or attempted), in order, and the entries it has
\* itself pushed and finalized, in order.
NoHistory ==
  [openAtStart |-> {}, firstProvider |-> 0, overlapped |-> FALSE, indexMoved |-> FALSE,
   recorded |-> FALSE, considered |-> <<>>, made |-> <<>>]

NoOut ==
  [status |-> "none", success |-> FALSE, emailId |-> "null",
   message |-> "none", provider |-> Null]

Min(a, b) == IF a <= b THEN a ELSE b

RECURSIVE Pow2(_)
Pow2(n) == IF n <= 0 THEN 1 ELSE 2 * Pow2(n - 1)

\* Variant: the delay is not capped.
ES_calculateRetryDelay_uncapped(attempt) == initialRetryDelay * Pow2(attempt - 1)

ES_calculateRetryDelay(attempt) ==
  Min(initialRetryDelay * Pow2(attempt - 1), maxRetryDelay)

\* The idempotency check at the head of sendEmail.
\* Variant: the idempotency check never answers.
ES_alreadySent_never(sent, emailId) == FALSE

ES_alreadySent(sent, emailId) == emailId \in sent

\* Variant: the rate limiter's answer is ignored.
ES_passesRateLimit_always(allowed) == TRUE

\* The rate check of sendEmail: the request goes on to the providers.
ES_passesRateLimit(allowed) == allowed

\* Variant: a successful send is not remembered.
ES_markSent_never(sent, emailId, success) == sent

\* Variant: the id is remembered whatever the result.
ES_markSent_always(sent, emailId, success) == sent \cup {emailId}

\* sendEmail after sendWithRetryAndFallback resolved: the id joins sentEmails.
ES_markSent(sent, emailId, success) ==
  IF success THEN sent \cup {emailId} ELSE sent

\* The arrays something still refers to: a record of the Map, or the
\* currentStatus a running sendWithRetryAndFallback holds.
Live(st, ps) ==
  {st[i].attempts : i \in Ids} \cup {ps[p].currentStatus : p \in Procs}

\* Arrays nothing refers to any more are dropped.
Collect(heap, st, ps) ==
  [r \in Refs |-> IF r \in Live(st, ps) THEN heap[r] ELSE <<>>]

FreshRef(st, ps) ==
  CHOOSE r \in Refs : r \notin Live(st, ps) /\ \A q \in Refs : q \notin Live(st, ps) => r <= q

\* sendWithRetryAndFallback leaves by return or throw; sendEmail resumes later.
ES_leave(w, ret) ==
  [w EXCEPT !.pr.pc = "returning", !.pr.ret = ret, !.pr.attempt = 0,
            !.pr.providerIndex = 0, !.pr.currentStatus = Undefined,
            !.pr.providersAttempted = 0,
            !.pr.actual = IF ret = "sent" THEN @ ELSE 0,
            !.pr.outcome = "none", !.pr.wakeAt = 0]

\* Variant: every provider is guarded by the breaker of the first one.
ES_breakerOf_first(actualProviderIndex) == 0

\* The breaker that guards the provider: the one at the provider's index.
ES_breakerOf(actualProviderIndex) == actualProviderIndex

\* this.emailStatuses.get(emailId).attempts can be pushed to.
HasAttempts(w) ==
  /\ w.st[w.pr.emailId].status # "absent"
  /\ w.st[w.pr.emailId].attempts # Undefined

\* One attempt of the retry loop up to `await circuitBreaker.call(...)`:
\* the "attempting" entry is pushed and call() runs up to the provider.
ES_attempt(w, t, attempt) ==
  IF ~HasAttempts(w)
  THEN ES_leave(w, "type_error")
  ELSE LET ref == w.st[w.pr.emailId].attempts
           entry == [provider |-> w.pr.actual, attempt |-> attempt,
                     status |-> "attempting", error |-> "none"]
           r == CB_callEnter(w.cbs[ES_breakerOf(w.pr.actual)], t)
       IN  [w EXCEPT !.heap[ref] = Append(@, entry),
                     !.made = Append(@, entry),
                     !.cbs[ES_breakerOf(w.pr.actual)] = r.cb,
                     !.pr.attempt = attempt,
                     !.pr.currentStatus = ref,
                     !.pr.wakeAt = 0,
                     !.pr.pc = IF r.invoked THEN "calling" ELSE "settled",
                     !.pr.outcome = IF r.invoked THEN "none" ELSE "circuit_open"]

\* Variant: the same error is thrown whether or not a provider was attempted.
ES_failure_same(providersAttempted) == "all_failed"

\* The error thrown past the last provider.
ES_failure(providersAttempted) ==
  IF providersAttempted = 0 THEN "unavailable" ELSE "all_failed"

\* Variant: the iteration begins one provider further on.
ES_actualProviderIndex_shifted(cpi, providerIndex) ==
  (cpi + providerIndex + 1) % NumProviders

\* The provider the outer loop looks at in its iteration providerIndex.
ES_actualProviderIndex(cpi, providerIndex) ==
  (cpi + providerIndex) % NumProviders

\* The provider of this breaker is skipped.
ES_skips(cb, t) == CB_isOpen(cb, t)

\* The outer loop of sendWithRetryAndFallback from providerIndex on: open
\* breakers are skipped, the first other provider gets attempt 1, and past
\* the last provider the function throws.
RECURSIVE ES_providerLoop(_, _, _)
ES_providerLoop(w, t, providerIndex) ==
  IF providerIndex >= NumProviders
  THEN ES_leave(w, ES_failure(w.pr.providersAttempted))
  ELSE LET actualProviderIndex == ES_actualProviderIndex(w.cpi, providerIndex)
       IN  IF ES_skips(w.cbs[ES_breakerOf(actualProviderIndex)], t)
           THEN IF ~HasAttempts(w)
                THEN ES_leave(w, "type_error")
                ELSE LET ref == w.st[w.pr.emailId].attempts
                         entry == [provider |-> actualProviderIndex, attempt |-> 0,
                                   status |-> "skipped", error |-> "circuit_open"]
                     IN  ES_providerLoop([w EXCEPT !.heap[ref] = Append(@, entry),
                                                   !.made = Append(@, entry),
                                                   !.seen = Append(@, actualProviderIndex)],
                                         t, providerIndex + 1)
           ELSE ES_attempt([w EXCEPT !.pr.providerIndex = providerIndex,
                                     !.pr.actual = actualProviderIndex,
                                     !.pr.providersAttempted = @ + 1,
                                     !.seen = Append(@, actualProviderIndex)],
                           t, 1)

\* Variant: a provider is given one attempt only.
ES_retriesLeft_none(attempt) == FALSE

\* Variant: a provider is given one attempt more than maxRetries.
ES_retriesLeft_oneMore(attempt) == attempt <= maxRetries

\* Another attempt on the same provider follows this failed one.
ES_retriesLeft(attempt) == attempt < maxRetries

\* The catch block of the retry loop, then the sleep or the next provider.
ES_afterFailure(w, t, error) ==
  LET rec == w.st[w.pr.emailId]
  IN  IF ~HasAttempts(w) \/ w.heap[rec.attempts] = <<>>
      THEN ES_leave(w, "type_error")
      ELSE LET n == Len(w.heap[rec.attempts])
               w1 == [w EXCEPT !.heap[rec.attempts][n].status = "failed",
                               !.heap[rec.attempts][n].error = error,
                               !.made[Len(w.made)].status = "failed",
                               !.made[Len(w.made)].error = error,
                               !.pr.currentStatus = Undefined,
                               !.pr.outcome = "none"]
           IN  IF ES_retriesLeft(w.pr.attempt)
               THEN [w1 EXCEPT !.pr.pc = "sleeping",
                               !.pr.wakeAt = t + ES_calculateRetryDelay(w.pr.attempt)]
               ELSE ES_providerLoop(w1, t, w.pr.providerIndex + 1)

\* Variant: a successful attempt is recorded, but the function goes on to
\* throw as if every provider had failed.
ES_afterSuccess_thrown(w) ==
  LET ref == w.pr.currentStatus
      n == Len(w.heap[ref])
      attemptInfo == [provider |-> w.pr.actual, attempt |-> w.pr.attempt,
                      status |-> "success", error |-> "none"]
  IN  ES_leave([w EXCEPT !.heap[ref][n] = attemptInfo,
                         !.made[Len(w.made)] = attemptInfo], "all_failed")

\* Variant: a success leaves currentProviderIndex as it is.
ES_afterSuccess_keepsIndex(w) ==
  LET ref == w.pr.currentStatus
      n == Len(w.heap[ref])
      attemptInfo == [provider |-> w.pr.actual, attempt |-> w.pr.attempt,
                      status |-> "success", error |-> "none"]
  IN  ES_leave([w EXCEPT !.heap[ref][n] = attemptInfo,
                         !.made[Len(w.made)] = attemptInfo], "sent")

\* The rest of the try block after call() resolved.
ES_afterSuccess(w) ==
  LET ref == w.pr.currentStatus
      n == Len(w.heap[ref])
      attemptInfo == [provider |-> w.pr.actual, attempt |-> w.pr.attempt,
                      status |-> "success", error |-> "none"]
  IN  ES_leave([w EXCEPT !.heap[ref][n] = attemptInfo,
                         !.made[Len(w.made)] = attemptInfo,
                         !.cpi = w.pr.actual], "sent")

World(p) ==
  [st |-> emailStatuses, heap |-> attemptsHeap, cbs |-> circuitBreakers,
   cpi |-> currentProviderIndex, pr |-> procs[p], seen |-> sendHist[p].considered,
   made |-> sendHist[p].made]

\* The shared state and p's locals become those of world w.
Install(p, w) ==
  LET ps == [procs EXCEPT ![p] = w.pr]
  IN  /\ procs' = ps
      /\ emailStatuses' = w.st
      /\ attemptsHeap' = Collect(w.heap, w.st, ps)
      /\ circuitBreakers' = w.cbs
      /\ currentProviderIndex' = w.cpi

\* The callers whose sendEmail for this id has begun and not yet returned.
InFlight(ps, emailId) ==
  {q \in Procs : ps[q].pc # "idle" /\ ps[q].emailId = emailId}

\* History: the sendEmail calls of these callers are marked as overlapped.
Overlap(hist, callers) ==
  [q \in Procs |-> IF q \in callers THEN [hist[q] EXCEPT !.overlapped = TRUE]
                   ELSE hist[q]]

\* The providers sendEmail would skip right now.
OpenBreakers(cbs, t) == {k \in Providers : CB_isOpen(cbs[k], t)}

ServiceInit ==
  /\ sentEmails = {}
  /\ emailStatuses = [i \in Ids |-> AbsentStatus]
  /\ attemptsHeap = [r \in Refs |-> <<>>]
  /\ circuitBreakers = [k \in Providers |-> CB_new(ServiceThreshold, ServiceTimeout)]
  /\ currentProviderIndex = 0
  /\ procs = [p \in Procs |-> IdleLocals]
  /\ sendOut = [p \in Procs |-> NoOut]
  /\ drain = [pc |-> "off", emailData |-> "null"]
  /\ drainHist = [ids |-> {}, disturbed |-> FALSE]
  /\ returnedSent = {}
  /\ sendHist = [p \in Procs |-> NoHistory]
  /\ calls = 0

\* sendEmail(emailData) up to its first await, for the caller p.
\* Variant: the answer to a duplicate takes a slot of the rate limiter.
ES_answerDuplicate_counted(p, emailId) ==
  /\ sendOut' = [sendOut EXCEPT ![p] =
       [status |-> "already_sent", success |-> TRUE, emailId |-> emailId,
        message |-> "already_sent", provider |-> Null]]
  /\ rateLimiter' = RL_allowRequest(rateLimiter, now).rl
  /\ UNCHANGED <<sentEmails, emailStatuses, attemptsHeap, circuitBreakers,
                 currentProviderIndex, procs, returnedSent, sendHist>>

\* sendEmail for an id that is in sentEmails: the already_sent result is
\* returned at once.
ES_answerDuplicate(p, emailId) ==
  /\ sendOut' = [sendOut EXCEPT ![p] =
       [status |-> "already_sent", success |-> TRUE, emailId |-> emailId,
        message |-> "already_sent", provider |-> Null]]
  /\ UNCHANGED <<sentEmails, emailStatuses, attemptsHeap, circuitBreakers,
                 currentProviderIndex, procs, rateLimiter, returnedSent, sendHist>>

ES_sendEmail(p, emailId) ==
  IF ES_alreadySent(sentEmails, emailId)
  THEN ES_answerDuplicate(p, emailId)
  ELSE LET r == RL_allowRequest(rateLimiter, now)
       IN  /\ rateLimiter' = r.rl
           /\ UNCHANGED <<sentEmails, returnedSent>>
           /\ IF ~ES_passesRateLimit(r.ok)
              THEN LET status == [status |-> "rate_limited", success |-> FALSE,
                                  attempts |-> Undefined, message |-> "rate_limit",
                                  provider |-> Null]
                       st == [emailStatuses EXCEPT ![emailId] = status]
                   IN  /\ emailStatuses' = st
                       /\ sendHist' = Overlap(sendHist, InFlight(procs, emailId))
                       /\ attemptsHeap' = Collect(attemptsHeap, st, procs)
                       /\ sendOut' = [sendOut EXCEPT ![p] =
                            [status |-> "rate_limited", success |-> FALSE,
                             emailId |-> emailId, message |-> "rate_limit",
                             provider |-> Null]]
                       /\ UNCHANGED <<circuitBreakers, currentProviderIndex, procs>>
              ELSE LET \* the array of the record being replaced is not free yet
                       ref == FreshRef(emailStatuses, procs)
                       initialStatus == [status |-> "processing", success |-> FALSE,
                                         attempts |-> ref, message |-> "none",
                                         provider |-> Null]
                       w == [World(p) EXCEPT !.st[emailId] = initialStatus,
                                             !.heap[ref] = <<>>,
                                             !.pr.emailId = emailId,
                                             !.seen = <<>>,
                                             !.made = <<>>]
                       others == InFlight(procs, emailId)
                   IN  /\ Install(p, ES_providerLoop(w, now, 0))
                       /\ sendHist' = [Overlap(sendHist, others) EXCEPT ![p] =
                            [openAtStart |-> OpenBreakers(circuitBreakers, now),
                             firstProvider |-> currentProviderIndex,
                             overlapped |-> others # {},
                             indexMoved |-> FALSE,
                             recorded |-> FALSE,
                             considered |-> ES_providerLoop(w, now, 0).seen,
                             made |-> ES_providerLoop(w, now, 0).made]]
                       /\ sendOut' = [sendOut EXCEPT ![p] = NoOut]

\* A caller calls sendEmail({id: emailId, ...}).
Send(p, emailId) ==
  /\ procs[p].pc = "idle"
  /\ p = DrainProc => drain.pc = "off"
  /\ calls < MaxCalls
  /\ calls' = calls + 1
  /\ ES_sendEmail(p, emailId)
  /\ UNCHANGED <<drain, drainHist, emailQueue, qNextId>>

\* The provider's promise settles and call() runs onSuccess or onFailure.
Settle(p, ok) ==
  /\ procs[p].pc = "calling"
  /\ LET k == ES_breakerOf(procs[p].actual)
         r == IF ok THEN CB_onSuccess(circuitBreakers[k])
                    ELSE CB_onFailure(circuitBreakers[k], now)
     IN  /\ circuitBreakers' = [circuitBreakers EXCEPT ![k] = r.cb]
         /\ procs' = [procs EXCEPT ![p].pc = "settled",
                                   ![p].outcome = IF ok THEN "ok" ELSE "error"]
  /\ UNCHANGED <<sentEmails, emailStatuses, attemptsHeap, currentProviderIndex,
                 sendOut, drain, drainHist, returnedSent, sendHist, calls, rateLimiter,
                 emailQueue, qNextId>>

\* sendWithRetryAndFallback resumes after `await circuitBreaker.call(...)`.
Resume(p) ==
  /\ procs[p].pc = "settled"
  /\ Install(p, IF procs[p].outcome = "ok"
                THEN ES_afterSuccess(World(p))
                ELSE ES_afterFailure(World(p), now, procs[p].outcome))
  /\ sendHist' = [q \in Procs |->
                    IF q # p /\ procs[q].pc # "idle"
                       /\ currentProviderIndex' # currentProviderIndex
                    THEN [sendHist[q] EXCEPT !.indexMoved = TRUE]
                    ELSE IF q = p /\ procs[p].outcome = "ok"
                    THEN [sendHist[q] EXCEPT
                            !.recorded =
                              LET heap == ES_afterSuccess(World(p)).heap
                                  ref == procs[p].currentStatus
                              IN  /\ Len(heap[ref]) >= 1
                                  /\ heap[ref][Len(heap[ref])].status = "success",
                            !.made = ES_afterSuccess(World(p)).made]
                    ELSE IF q = p
                    THEN LET w == ES_afterFailure(World(p), now, procs[p].outcome)
                         IN  [sendHist[q] EXCEPT !.considered = w.seen, !.made = w.made]
                    ELSE sendHist[q]]
  /\ UNCHANGED <<sentEmails, sendOut, drain, drainHist, returnedSent, calls, rateLimiter,
                 emailQueue, qNextId>>

\* The backoff sleep ends and the next attempt on the same provider starts.
Wake(p) ==
  /\ procs[p].pc = "sleeping"
  /\ now >= procs[p].wakeAt
  /\ Install(p, ES_attempt(World(p), now, procs[p].attempt + 1))
  /\ sendHist' = [sendHist EXCEPT ![p].made =
                    ES_attempt(World(p), now, procs[p].attempt + 1).made]
  /\ UNCHANGED <<sentEmails, sendOut, drain, drainHist, returnedSent, calls,
                 rateLimiter, emailQueue, qNextId>>

\* sendEmail resumes after `await this.sendWithRetryAndFallback(...)`: the
\* try block builds finalStatus, the catch block errorStatus; either reads
\* this.emailStatuses.get(emailId).attempts and throws when there is no entry.
Finish(p) ==
  /\ procs[p].pc = "returning"
  /\ LET emailId == procs[p].emailId
         success == procs[p].ret = "sent"
         rec == emailStatuses[emailId]
         ps == [procs EXCEPT ![p] = IdleLocals]
         result == [status |-> IF success THEN "sent" ELSE "failed",
                    success |-> success,
                    attempts |-> rec.attempts,
                    message |-> procs[p].ret,
                    provider |-> IF success THEN procs[p].actual ELSE Null]
     IN  /\ sentEmails' = ES_markSent(sentEmails, emailId, success)
         /\ procs' = ps
         /\ IF rec.status = "absent"
            THEN /\ sendOut' = [sendOut EXCEPT ![p] =
                      [status |-> "raised", success |-> FALSE, emailId |-> emailId,
                       message |-> "type_error", provider |-> Null]]
                 /\ attemptsHeap' = Collect(attemptsHeap, emailStatuses, ps)
                 /\ UNCHANGED <<emailStatuses, returnedSent>>
            ELSE /\ emailStatuses' = [emailStatuses EXCEPT ![emailId] = result]
                 /\ attemptsHeap' = Collect(attemptsHeap, emailStatuses', ps)
                 /\ sendOut' = [sendOut EXCEPT ![p] =
                      [status |-> result.status, success |-> success,
                       emailId |-> emailId, message |-> result.message,
                       provider |-> result.provider]]
                 /\ returnedSent' = IF success THEN returnedSent \cup {emailId}
                                    ELSE returnedSent
  /\ sendHist' = [sendHist EXCEPT ![p] = NoHistory]
  /\ UNCHANGED <<circuitBreakers, currentProviderIndex, drain, drainHist, calls,
                 rateLimiter, emailQueue, qNextId>>

\* queueEmail(emailData): the e-mail is added at priority 0.
QueueEmail(emailId) ==
  /\ calls < MaxCalls
  /\ calls' = calls + 1
  /\ qNextId' = qNextId + 1
  /\ emailQueue' = Q_add(emailQueue, emailId, 0, now, qNextId + 1)
  /\ drainHist' = [drainHist EXCEPT !.disturbed = @ \/ drain.pc # "off"]
  /\ UNCHANGED <<sentEmails, emailStatuses, attemptsHeap, circuitBreakers,
                 currentProviderIndex, procs, sendOut, drain, returnedSent, sendHist,
                 rateLimiter>>

\* processQueue() is called: an empty queue ends it, else the head is popped.
DrainStart ==
  /\ drain.pc = "off"
  /\ procs[DrainProc].pc = "idle"
  /\ LET r == Q_next(emailQueue)
     IN  /\ emailQueue' = r.q
         /\ drain' = IF Q_isEmpty(emailQueue) THEN drain
                     ELSE [pc |-> "popped", emailData |-> r.emailData]
         /\ drainHist' = [drainHist EXCEPT
                            !.ids = IF Q_isEmpty(emailQueue) THEN {} ELSE {r.emailData}]
  /\ UNCHANGED <<sentEmails, emailStatuses, attemptsHeap, circuitBreakers,
                 currentProviderIndex, procs, sendOut, returnedSent, sendHist, calls,
                 rateLimiter, qNextId>>

\* processQueue resumes after `await this.emailQueue.next()` and calls sendEmail.
DrainSend ==
  /\ drain.pc = "popped"
  /\ drain' = [pc |-> "sending", emailData |-> "null"]
  /\ ES_sendEmail(DrainProc, drain.emailData)
  /\ UNCHANGED <<emailQueue, qNextId, calls, drainHist>>

\* processQueue resumes after `await this.sendEmail(...)`, whether it returned
\* or threw, and tests the queue again.
DrainNext ==
  /\ drain.pc = "sending"
  /\ procs[DrainProc].pc = "idle"
  /\ LET r == Q_next(emailQueue)
     IN  /\ emailQueue' = r.q
         /\ drain' = IF Q_isEmpty(emailQueue) THEN [pc |-> "off", emailData |-> "null"]
                     ELSE [pc |-> "popped", emailData |-> r.emailData]
         /\ drainHist' = IF Q_isEmpty(emailQueue) THEN [ids |-> {}, disturbed |-> FALSE]
                         ELSE [drainHist EXCEPT !.ids = @ \cup {r.emailData}]
  /\ UNCHANGED <<sentEmails, emailStatuses, attemptsHeap, circuitBreakers,
                 currentProviderIndex, procs, sendOut, returnedSent, sendHist, calls,
                 rateLimiter, qNextId>>

\* reset()
Reset ==
  /\ sentEmails' = {}
  /\ emailStatuses' = [i \in Ids |-> AbsentStatus]
  /\ attemptsHeap' = Collect(attemptsHeap, emailStatuses', procs)
  /\ circuitBreakers' = [k \in Providers |-> CB_reset(circuitBreakers[k]).cb]
  /\ rateLimiter' = RL_reset(rateLimiter)
  /\ emailQueue' = Q_clear(emailQueue)
  /\ currentProviderIndex' = 0
  /\ returnedSent' = {}
  /\ sendHist' = Overlap(sendHist, {q \in Procs : procs[q].pc # "idle"})
  /\ drainHist' = [drainHist EXCEPT !.disturbed = @ \/ drain.pc # "off"]
  /\ UNCHANGED <<procs, sendOut, drain, qNextId, calls>>

(* --------------------------- specifications ---------------------------- *)

\* The RateLimiter on its own, constructed with any limit and window.
InitRL ==
  /\ now = 0
  /\ \E limit \in 0..MaxLimit, windowMs \in 1..MaxWindow : RLInit(limit, windowMs)
  /\ CBInit(ServiceThreshold, ServiceTimeout)
  /\ QInit
  /\ ServiceInit

NextRL ==
  \/ Tick /\ UNCHANGED <<rlVars, cbVars, qVars, svcVars>>
  \/ RLAllowRequest /\ UNCHANGED <<now, cbVars, qVars, svcVars>>
  \/ RLGetRequestCount /\ UNCHANGED <<now, cbVars, qVars, svcVars>>
  \/ RLGetRemainingRequests /\ UNCHANGED <<now, cbVars, qVars, svcVars>>
  \/ RLReset /\ UNCHANGED <<now, cbVars, qVars, svcVars>>
  \/ RLConfigure /\ UNCHANGED <<now, cbVars, qVars, svcVars>>

SpecRL == InitRL /\ [][NextRL]_vars

\* The CircuitBreaker on its own, with overlapping callers.
InitCB ==
  /\ now = 0
  /\ RLInit(ServiceLimit, ServiceWindow)
  /\ \E threshold \in 1..MaxThreshold, timeout \in 1..MaxTimeout : CBInit(threshold, timeout)
  /\ QInit
  /\ ServiceInit

NextCB ==
  \/ Tick /\ UNCHANGED <<rlVars, cbVars, qVars, svcVars>>
  \/ \E c \in Callers : CBCall(c) /\ UNCHANGED <<now, rlVars, qVars, svcVars>>
  \/ \E c \in Callers, ok \in BOOLEAN : CBSettle(c, ok) /\ UNCHANGED <<now, rlVars, qVars, svcVars>>
  \/ CBReset /\ UNCHANGED <<now, rlVars, qVars, svcVars>>

SpecCB == InitCB /\ [][NextCB]_vars

\* The EmailQueue on its own.
InitQ ==
  /\ now = 0
  /\ RLInit(ServiceLimit, ServiceWindow)
  /\ CBInit(ServiceThreshold, ServiceTimeout)
  /\ QInit
  /\ ServiceInit

NextQ ==
  \/ ServiceTick /\ UNCHANGED <<rlVars, cbVars, qVars, svcVars>>
  \/ \E d \in Payloads, p \in 0..MaxPriority : QAdd(d, p) /\ UNCHANGED <<now, rlVars, cbVars, svcVars, batchRuns, batchHist>>
  \/ QNext /\ UNCHANGED <<now, rlVars, cbVars, svcVars, batchRuns, batchHist>>
  \/ \E id \in 1..MaxAdds : QRemove(id) /\ UNCHANGED <<now, rlVars, cbVars, svcVars, batchRuns, batchHist>>
  \/ QClear /\ UNCHANGED <<now, rlVars, cbVars, svcVars, batchRuns, batchHist>>

SpecQ == InitQ /\ [][NextQ]_vars

\* The EmailQueue with overlapping processBatch calls.
NextBatch ==
  \/ ServiceTick /\ UNCHANGED <<rlVars, cbVars, qVars, svcVars>>
  \/ \E d \in Payloads : QAdd(d, 0) /\ CutsIn /\ UNCHANGED <<now, rlVars, cbVars, svcVars, batchRuns>>
  \/ QNext /\ CutsIn /\ UNCHANGED <<now, rlVars, cbVars, svcVars, batchRuns>>
  \/ \E id \in 1..MaxAdds : QRemove(id) /\ CutsIn /\ UNCHANGED <<now, rlVars, cbVars, svcVars, batchRuns>>
  \/ QClear /\ CutsIn /\ UNCHANGED <<now, rlVars, cbVars, svcVars, batchRuns>>
  \/ \E r \in Runs, batchSize \in 0..MaxBatch :
       PBStart(r, batchSize) /\ UNCHANGED <<now, rlVars, cbVars, svcVars>>
  \/ \E r \in Runs, throws \in BOOLEAN :
       PBFetched(r, throws) /\ UNCHANGED <<now, rlVars, cbVars, svcVars>>
  \/ \E r \in Runs : \E failed \in [1..Len(batchRuns[r].batch) -> BOOLEAN] :
       PBSettled(r, failed) /\ UNCHANGED <<now, rlVars, cbVars, svcVars>>

SpecBatch == InitQ /\ [][NextBatch]_vars

\* The EmailService: overlapping sendEmail calls, queueEmail, processQueue
\* and reset, with the providers succeeding or failing as they please.
Init ==
  /\ now = 0
  /\ RLInit(ServiceLimit, ServiceWindow)
  /\ CBInit(ServiceThreshold, ServiceTimeout)
  /\ QInit
  /\ ServiceInit

parked == <<rlOut, rlAdmitted, rlReconfigured, cbVars, qOut, batchRuns, batchHist>>

Next ==
  \/ ServiceTick /\ UNCHANGED <<rlVars, cbVars, qVars, svcVars>>
  \/ \E p \in Procs, emailId \in Ids : Send(p, emailId) /\ UNCHANGED <<now, parked>>
  \/ \E p \in Procs, ok \in BOOLEAN : Settle(p, ok) /\ UNCHANGED <<now, parked>>
  \/ \E p \in Procs : Resume(p) /\ UNCHANGED <<now, parked>>
  \/ \E p \in Procs : Wake(p) /\ UNCHANGED <<now, parked>>
  \/ \E p \in Procs : Finish(p) /\ UNCHANGED <<now, parked>>
  \/ \E emailId \in Ids : QueueEmail(emailId) /\ UNCHANGED <<now, parked>>
  \/ DrainStart /\ UNCHANGED <<now, parked>>
  \/ DrainSend /\ UNCHANGED <<now, parked>>
  \/ DrainNext /\ UNCHANGED <<now, parked>>
  \/ Reset /\ UNCHANGED <<now, parked>>

Spec == Init /\ [][Next]_vars

\* The EmailService under overlapping sendEmail calls alone, with a rate
\* limit that admits every call: no reset, no queue.
InitRace ==
  /\ now = 0
  /\ RLInit(RaceLimit, ServiceWindow)
  /\ CBInit(ServiceThreshold, ServiceTimeout)
  /\ QInit
  /\ ServiceInit

NextRace ==
  \/ ServiceTick /\ UNCHANGED <<rlVars, cbVars, qVars, svcVars>>
  \/ \E p \in Procs, emailId \in Ids : Send(p, emailId) /\ UNCHANGED <<now, parked>>
  \/ \E p \in Procs, ok \in BOOLEAN : Settle(p, ok) /\ UNCHANGED <<now, parked>>
  \/ \E p \in Procs : Resume(p) /\ UNCHANGED <<now, parked>>
  \/ \E p \in Procs : Wake(p) /\ UNCHANGED <<now, parked>>
  \/ \E p \in Procs : Finish(p) /\ UNCHANGED <<now, parked>>

SpecRace == InitRace /\ [][NextRace]_vars

\* The same, with time that passes for as long as a backoff sleep is
\* pending, provider calls that all settle and an event loop that resumes
\* every continuation.
LiveTick ==
  /\ \E p \in Procs : procs[p].pc = "sleeping" /\ now < procs[p].wakeAt
  /\ now' = now + 1

\* The callers of this specification await each sendEmail before the next
\* one is made.
NoneInFlight == \A q \in Procs : procs[q].pc = "idle"

TickStep == LiveTick /\ UNCHANGED <<rlVars, cbVars, qVars, svcVars>>
SettleStep(p) == \E ok \in BOOLEAN : Settle(p, ok) /\ UNCHANGED <<now, parked>>
ResumeStep(p) == Resume(p) /\ UNCHANGED <<now, parked>>
WakeStep(p) == Wake(p) /\ UNCHANGED <<now, parked>>
FinishStep(p) == Finish(p) /\ UNCHANGED <<now, parked>>

NextLive ==
  \/ TickStep
  \/ \E p \in Procs, emailId \in Ids :
        NoneInFlight /\ Send(p, emailId) /\ UNCHANGED <<now, parked>>
  \/ \E p \in Procs : SettleStep(p)
  \/ \E p \in Procs : ResumeStep(p)
  \/ \E p \in Procs : WakeStep(p)
  \/ \E p \in Procs : FinishStep(p)

\* What happens without a new call being made: a pending provider call
\* settles, a continuation is resumed, a timer fires, time passes.
Progress ==
  \/ TickStep
  \/ \E p \in Procs : SettleStep(p) \/ ResumeStep(p) \/ WakeStep(p) \/ FinishStep(p)

\* The event loop does not stand still while something is pending.
SpecLive == InitRace /\ [][NextLive]_vars /\ WF_vars(Progress)

\* The EmailService under callers that await each sendEmail before the next
\* one is made and that come back later: Date.now() moves on while a backoff
\* sleep is pending or a breaker that is OPEN waits for its nextAttempt.
RetryTick ==
  /\ \/ \E p \in Procs : procs[p].pc = "sleeping" /\ now < procs[p].wakeAt
     \/ \E k \in Providers : CB_isOpen(circuitBreakers[k], now)
  /\ now' = now + 1

NextRetry ==
  \/ RetryTick /\ UNCHANGED <<rlVars, cbVars, qVars, svcVars>>
  \/ \E p \in Procs, emailId \in Ids :
        NoneInFlight /\ Send(p, emailId) /\ UNCHANGED <<now, parked>>
  \/ \E p \in Procs : SettleStep(p)
  \/ \E p \in Procs : ResumeStep(p)
  \/ \E p \in Procs : WakeStep(p)
  \/ \E p \in Procs : FinishStep(p)

SpecRetry == Init /\ [][NextRetry]_vars

\* The CircuitBreaker on its own, with time that keeps advancing, calls that
\* keep arriving and operations that all settle. Date.now() moves on up to
\* MaxTime and, past it, for as long as an OPEN breaker waits for its
\* nextAttempt; operations fail before MaxTime only.
CBLiveTick ==
  /\ \/ now < MaxTime
     \/ breaker.state = "OPEN" /\ now < Num(breaker.nextAttempt)
  /\ now' = now + 1

CBTickStep == CBLiveTick /\ UNCHANGED <<rlVars, cbVars, qVars, svcVars>>

CBCallStep(c) == CBCall(c) /\ UNCHANGED <<now, rlVars, qVars, svcVars>>

CBSettleStep(c) ==
  \E ok \in BOOLEAN :
    /\ ok \/ now < MaxTime
    /\ CBSettle(c, ok)
    /\ UNCHANGED <<now, rlVars, qVars, svcVars>>

NextCBLive ==
  \/ CBTickStep
  \/ \E c \in Callers : CBCallStep(c)
  \/ \E c \in Callers : CBSettleStep(c)

SpecCBLive ==
  /\ InitCB
  /\ [][NextCBLive]_vars
  /\ WF_vars(CBTickStep)
  /\ WF_vars(\E c \in Callers : CBCallStep(c))
  /\ \A c \in Callers : WF_vars(CBSettleStep(c))

(* ------------------- properties of the RateLimiter --------------------- *)

\* The admissions, since construction or reset, with a timestamp in (t - w, t].
AdmittedIn(t, w) == {i \in 1..Len(rlAdmitted) : t - w < rlAdmitted[i] /\ rlAdmitted[i] <= t}

\* C4: with limit N and window W (never reconfigured), a request that finds N
\* admissions less than W ms old is denied (the (N+1)-th within the window is
\* rate limited), and a request that finds fewer than N admissions less than
\* W ms old is admitted: once W ms have elapsed since the oldest admission of
\* a full window, the next request is admitted again.
C4_WindowOfN ==
  [][ (RLAllowRequest /\ ~rlReconfigured) =>
        LET k == Cardinality(AdmittedIn(now, rateLimiter.windowMs))
        IN  /\ (k >= rateLimiter.limit => ~rlOut'.ok)
            /\ (k < rateLimiter.limit => rlOut'.ok) ]_vars

\* C4 witness: capacity was restored: a request was admitted just now although
\* limit earlier requests had been admitted, the last of them exactly W ms ago.
C4_Witness ==
  /\ ~rlReconfigured
  /\ rateLimiter.limit >= 1
  /\ rlOut.op = "allowRequest" /\ rlOut.ok
  /\ Len(rlAdmitted) = rateLimiter.limit + 1
  /\ rlAdmitted[Len(rlAdmitted)] = now
  /\ \A i \in 1..rateLimiter.limit : rlAdmitted[i] = now - rateLimiter.windowMs

\* C5: allowRequest keeps exactly the timestamps newer than now - windowMs,
\* admits (appending now) iff fewer than limit are kept, and a denied call
\* leaves the window as it was; hence, while limit and window are unchanged,
\* no window of windowMs milliseconds (t - windowMs, t] ever holds more than
\* limit admissions.
C5_SlidingWindow ==
  [][ /\ RLAllowRequest =>
           LET kept == SelectSeq(rateLimiter.requests,
                                 LAMBDA ts : ts > now - rateLimiter.windowMs)
           IN  /\ rlOut'.ok <=> Len(kept) < rateLimiter.limit
               /\ rateLimiter'.requests = IF rlOut'.ok THEN Append(kept, now) ELSE kept
      /\ (RLAllowRequest /\ ~rlReconfigured /\ ~rlOut'.ok) => rateLimiter' = rateLimiter
      /\ ~rlReconfigured' =>
           \A t \in 0..MaxTime :
             Cardinality({i \in 1..Len(rlAdmitted') :
                            t - rateLimiter'.windowMs < rlAdmitted'[i] /\ rlAdmitted'[i] <= t})
               <= rateLimiter'.limit ]_vars

\* C5 witness: a full window denied a request, and admissions span two windows.
C5_Witness ==
  /\ ~rlReconfigured
  /\ rateLimiter.limit >= 1
  /\ rlOut.op = "allowRequest" /\ ~rlOut.ok
  /\ Len(rateLimiter.requests) = rateLimiter.limit
  /\ Len(rlAdmitted) > rateLimiter.limit

(* ------------------ properties of the CircuitBreaker ------------------- *)

\* C6: starting from CLOSED, the breaker is still CLOSED while fewer than
\* threshold consecutive calls have failed, and the failure that completes a
\* run of threshold consecutive failures leaves it OPEN with isOpen() true.
C6_OpensAtThreshold ==
  [][ /\ (cbStreakFromClosed' /\ cbStreak' < breaker'.threshold) => breaker'.state = "CLOSED"
      /\ \A c \in Callers :
           (CBSettle(c, FALSE) /\ cbStreakFromClosed /\ cbStreak' = breaker.threshold) =>
             /\ CB_getState(breaker') = "OPEN"
             /\ CB_isOpen(breaker', now') ]_vars

\* C6 witness: a run of threshold (at least 2) failures from CLOSED has opened it.
C6_Witness ==
  /\ breaker.threshold >= 2
  /\ cbStreakFromClosed /\ cbStreak = breaker.threshold
  /\ breaker.state = "OPEN" /\ cbFired = <<"OPEN">>
  /\ CB_isOpen(breaker, now)

\* C7: a call made while the breaker is OPEN and now < nextAttempt fails at
\* once with the circuit-open error, and its operation is not invoked.
C7_OpenRejects ==
  [][ \A c \in Callers :
        (CBCall(c) /\ breaker.state = "OPEN" /\ now < breaker.nextAttempt) =>
          /\ cbCalls'[c].out = "circuit_open"
          /\ cbCalls'[c].pc # "invoked"
          /\ breaker' = breaker ]_vars

\* C7 witness: a caller was just refused by an OPEN breaker.
C7_Witness ==
  /\ breaker.state = "OPEN" /\ now < breaker.nextAttempt
  /\ \E c \in Callers : cbCalls[c].pc = "idle" /\ cbCalls[c].out = "circuit_open"

\* The call that finds the breaker OPEN at or after nextAttempt makes it
\* HALF_OPEN, fires the notification and invokes its operation.
TrialAdmitted(c) ==
  (CBCall(c) /\ breaker.state = "OPEN" /\ now >= breaker.nextAttempt) =>
    /\ breaker'.state = "HALF_OPEN"
    /\ cbFired' = <<"HALF_OPEN">>
    /\ cbCalls'[c].pc = "invoked"

\* The breaker is CLOSED with no failures counted and the result is returned.
ClosesAndReturns(c) ==
  /\ breaker'.state = "CLOSED"
  /\ breaker'.failureCount = 0
  /\ cbCalls'[c].out = "result"

\* C8 as stated: the first call at or after nextAttempt makes the breaker
\* HALF_OPEN and invokes the operation, and whenever that operation succeeds
\* the breaker becomes CLOSED with failureCount = 0 and the result is returned.
C8_TrialSuccessCloses ==
  [][ \A c \in Callers :
        /\ TrialAdmitted(c)
        /\ (CBSettle(c, TRUE) /\ cbCalls[c].trial) => ClosesAndReturns(c) ]_vars

\* C8 as amended: ... and when that operation succeeds while the breaker is
\* still HALF_OPEN, the breaker becomes CLOSED with failureCount = 0, the
\* notification is fired and the result is returned; the result is returned
\* in every case.
C8_TrialSuccessClosesIfHalfOpen ==
  [][ \A c \in Callers :
        /\ TrialAdmitted(c)
        /\ (CBSettle(c, TRUE) /\ cbCalls[c].trial) => cbCalls'[c].out = "result"
        /\ (CBSettle(c, TRUE) /\ cbCalls[c].trial /\ breaker.state = "HALF_OPEN") =>
             (ClosesAndReturns(c) /\ cbFired' = <<"CLOSED">>) ]_vars

\* C8 witness: a trial call has succeeded and closed the breaker.
C8_Witness ==
  /\ breaker.state = "CLOSED" /\ breaker.failureCount = 0
  /\ cbFired = <<"CLOSED">>
  /\ cbStreak = 0
  /\ \E c \in Callers : cbCalls[c].trial /\ cbCalls[c].pc = "idle" /\ cbCalls[c].out = "result"

\* C9: a call that fails while the breaker is HALF_OPEN moves it to OPEN
\* with nextAttempt = now + timeout, whatever came before, and the caller
\* gets the operation's own error.
C9_HalfOpenFailureReopens ==
  [][ \A c \in Callers :
        (CBSettle(c, FALSE) /\ breaker.state = "HALF_OPEN") =>
          /\ breaker'.state = "OPEN"
          /\ breaker'.nextAttempt = now + breaker.timeout
          /\ cbFired' = <<"OPEN">>
          /\ cbCalls'[c].out = "error" ]_vars

\* C9 witness: caller 1 opened the breaker, was later admitted as the trial
\* and failed; nobody else ever called.
C9_Witness ==
  /\ cbCalls[2].pc = "idle" /\ cbCalls[2].out = "none"
  /\ cbCalls[1].pc = "idle" /\ cbCalls[1].trial /\ cbCalls[1].out = "error"
  /\ breaker.state = "OPEN"
  /\ breaker.failureCount = breaker.threshold + 1
  /\ breaker.nextAttempt = now + breaker.timeout

(* -------------------- properties of the EmailQueue --------------------- *)

\* Item x is dequeued before item y: lower priority value first, and among
\* equal priorities the one added earlier (ids are handed out in add order).
Precedes(x, y) ==
  \/ x.priority < y.priority
  \/ x.priority = y.priority /\ x.id < y.id /\ x.timestamp <= y.timestamp

QueueOrdered(queue) ==
  \A i, j \in 1..Len(queue) : i < j => Precedes(queue[i], queue[j])

\* C10: after any sequence of add, next, remove and clear the buffer is
\* sorted by ascending priority, equal priorities in insertion order, and
\* next returns the item that precedes every other item and removes it.
C10_QueueOrder ==
  [][ /\ QueueOrdered(emailQueue'.queue)
      /\ (QNext /\ Len(emailQueue.queue) > 0) =>
           \E i \in 1..Len(emailQueue.queue) :
             /\ \A j \in 1..Len(emailQueue.queue) :
                  j # i => Precedes(emailQueue.queue[i], emailQueue.queue[j])
             /\ qOut'.emailData = emailQueue.queue[i].emailData
             /\ emailQueue'.queue = RemoveAt(emailQueue.queue, i) ]_vars

\* C10 witness: next has just returned an item that was added last but sorted
\* first, leaving two items of equal priority in insertion order.
C10_Witness ==
  /\ qOut.op = "next" /\ qOut.ok
  /\ qNextId = 3
  /\ Len(emailQueue.queue) = 2
  /\ emailQueue.queue[1].id = 1 /\ emailQueue.queue[2].id = 2
  /\ emailQueue.queue[1].priority = emailQueue.queue[2].priority

(* ------------------- properties of the EmailService -------------------- *)

\* Caller p enters sendEmail with this id, directly or from processQueue.
SendStarts(p, emailId) ==
  \/ Send(p, emailId)
  \/ p = DrainProc /\ drain.emailData = emailId /\ DrainSend

\* No attempts array gains or changes an entry (an array may be dropped).
NoAttemptRecorded ==
  \A r \in Refs : attemptsHeap'[r] = attemptsHeap[r] \/ attemptsHeap'[r] = <<>>

\* C1: once a sendEmail for an id has returned status sent, every sendEmail
\* with that id started afterwards (no reset in between) returns already_sent
\* with success true at once: no provider and no breaker is invoked, the
\* rate limiter is not consulted and no attempt is added to the id's record.
C1_Idempotent ==
  [][ \A p \in Procs, emailId \in Ids :
        (SendStarts(p, emailId) /\ emailId \in returnedSent) =>
          /\ sendOut'[p].status = "already_sent"
          /\ sendOut'[p].success
          /\ sendOut'[p].emailId = emailId
          /\ procs'[p].pc = "idle"
          /\ UNCHANGED <<procs, circuitBreakers, currentProviderIndex, rateLimiter,
                         emailStatuses, attemptsHeap, sentEmails>> ]_vars

\* C1 witness: a sendEmail has returned already_sent for an id whose record
\* is the sent record of the earlier call, with the attempts that call made.
C1_Witness ==
  \E p \in Procs :
    /\ sendOut[p].status = "already_sent"
    /\ sendOut[p].emailId \in returnedSent
    /\ emailStatuses[sendOut[p].emailId].status = "sent"
    /\ emailStatuses[sendOut[p].emailId].attempts # Undefined
    /\ Len(attemptsHeap[emailStatuses[sendOut[p].emailId].attempts]) >= 1

\* C2 as stated: no sendEmail call ends by throwing to its caller.
C2_SendNeverRaises ==
  \A p \in Procs : sendOut[p].status # "raised"

\* C3: a sendEmail whose allowRequest() is false returns rate_limited with
\* success false at once: no provider and no breaker call is made, no attempt
\* is recorded (the record written has no attempts), and the breakers,
\* sentEmails and currentProviderIndex are as before.
C3_RateLimitFirst ==
  [][ \A p \in Procs, emailId \in Ids :
        ( /\ SendStarts(p, emailId)
          /\ ~ES_alreadySent(sentEmails, emailId)
          /\ ~RL_allowRequest(rateLimiter, now).ok ) =>
          /\ sendOut'[p].status = "rate_limited"
          /\ ~sendOut'[p].success
          /\ sendOut'[p].emailId = emailId
          /\ emailStatuses'[emailId].status = "rate_limited"
          /\ ~emailStatuses'[emailId].success
          /\ emailStatuses'[emailId].attempts = Undefined
          /\ NoAttemptRecorded
          /\ procs'[p].pc = "idle"
          /\ UNCHANGED <<procs, circuitBreakers, sentEmails, currentProviderIndex>> ]_vars

\* C3 witness: a sendEmail was refused by a full window while another
\* caller's sendEmail was at its provider.
C3_Witness ==
  \E p, q \in Procs :
    /\ p # q
    /\ sendOut[p].status = "rate_limited"
    /\ emailStatuses[sendOut[p].emailId].status = "rate_limited"
    /\ Len(rateLimiter.requests) = rateLimiter.limit
    /\ procs[q].pc = "calling"

(* ------------------- properties of processBatch ------------------------ *)

\* The processBatch calls that have started and not yet ended.
ActiveRuns == {r \in Runs : batchRuns[r].pc # "idle"}

\* C11 as stated: at most one processBatch run is active at any time, and a
\* processBatch call made while another run is active fails at once with the
\* already-being-processed error and takes no item.
C11_OneBatchRun ==
  [][ /\ Cardinality(ActiveRuns') <= 1
      /\ \A r \in Runs, batchSize \in 0..MaxBatch :
           (PBStart(r, batchSize) /\ ActiveRuns # {}) =>
             /\ batchRuns'[r].out = "already_processing"
             /\ batchRuns'[r].pc = "idle"
             /\ emailQueue' = emailQueue ]_vars

(* ------------- properties of one sendEmail, start to end --------------- *)

\* The attempts of the record of this id.
AttemptsOf(st, heap, emailId) ==
  IF st[emailId].attempts = Undefined THEN <<>> ELSE heap[st[emailId].attempts]

\* The positions of the entries for provider k.
EntriesFor(att, k) == {i \in 1..Len(att) : att[i].provider = k}

\* Caller p's sendEmail returns now, having sent through B although the
\* breaker of A was open and that of B was not when it began; no reset and
\* no sendEmail with the same id overlapped it.
FallbackReturns(p, A, B) ==
  /\ Finish(p)
  /\ ~sendHist[p].overlapped
  /\ A \in sendHist[p].openAtStart
  /\ B \notin sendHist[p].openAtStart
  /\ procs[p].ret = "sent"
  /\ procs[p].actual = B

\* What both readings of C12 share: the sendEmail returns sent with provider
\* B, and every entry for A is a skipped entry (A was never invoked).
FallbackResult(p, A, B) ==
  LET att == AttemptsOf(emailStatuses', attemptsHeap', procs[p].emailId)
  IN  /\ sendOut'[p].status = "sent"
      /\ sendOut'[p].success
      /\ sendOut'[p].provider = B
      /\ emailStatuses'[procs[p].emailId].status = "sent"
      /\ \A i \in EntriesFor(att, A) : att[i].status = "skipped" /\ att[i].attempt = 0
      /\ att[Len(att)] = [provider |-> B, attempt |-> att[Len(att)].attempt,
                          status |-> "success", error |-> "none"]

ReturnsUndisturbed(p) ==
  /\ Finish(p)
  /\ ~sendHist[p].overlapped
  /\ ~sendHist[p].indexMoved

\* The record of the id after this step.
RecordAfter(p) == emailStatuses'[procs[p].emailId]

AttemptsAfter(p) == AttemptsOf(emailStatuses', attemptsHeap', procs[p].emailId)

\* C13: a sendEmail in which no provider was skipped and no attempt
\* succeeded returns failed with success false and exactly
\* maxRetries * NumProviders entries, all failed: maxRetries entries numbered
\* 1..maxRetries for each provider, the providers in iteration order from
\* the one currentProviderIndex designated at the start.
C13_Exhaustion ==
  [][ \A p \in Procs :
        ( /\ ReturnsUndisturbed(p)
          /\ procs[p].ret # "sent"
          /\ \A i \in 1..Len(AttemptsAfter(p)) : AttemptsAfter(p)[i].status # "skipped" ) =>
          LET att == AttemptsAfter(p)
          IN  /\ sendOut'[p].status = "failed" /\ ~sendOut'[p].success
              /\ RecordAfter(p).status = "failed" /\ ~RecordAfter(p).success
              /\ Len(att) = maxRetries * NumProviders
              /\ \A i \in 1..Len(att) :
                   /\ att[i].status = "failed"
                   /\ att[i].attempt = ((i - 1) % maxRetries) + 1
                   /\ att[i].provider =
                        (sendHist[p].firstProvider + ((i - 1) \div maxRetries)) % NumProviders ]_vars

\* C13 witness: a sendEmail has returned failed after maxRetries failed
\* attempts on each of the two providers, none of them refused by a breaker.
C13_Witness ==
  \E p \in Procs :
    LET att == AttemptsOf(emailStatuses, attemptsHeap, sendOut[p].emailId)
    IN  /\ sendOut[p].status = "failed" /\ sendOut[p].message = "all_failed"
        /\ procs[p].pc = "idle"
        /\ emailStatuses[sendOut[p].emailId].status = "failed"
        /\ Len(att) = maxRetries * NumProviders
        /\ \A i \in 1..Len(att) : att[i].status = "failed" /\ att[i].error = "error"
        /\ att[1].provider # att[Len(att)].provider

\* C14: when an attempt succeeds, sendWithRetryAndFallback returns at once
\* with that provider (which becomes currentProviderIndex) and the sendEmail
\* makes no further attempt; it returns sent with that provider, the id is
\* in sentEmails, and the record ends with the success entry, the only one,
\* every entry before it being failed or skipped.
C14_StopOnSuccess ==
  [][ \A p \in Procs :
        /\ (Resume(p) /\ procs[p].outcome = "ok") =>
             /\ procs'[p].pc = "returning"
             /\ procs'[p].ret = "sent"
             /\ procs'[p].actual = procs[p].actual
             /\ currentProviderIndex' = procs[p].actual
        /\ procs[p].pc = "returning" => (procs'[p] = procs[p] \/ Finish(p))
        /\ (Finish(p) /\ ~sendHist[p].overlapped /\ procs[p].ret = "sent") =>
             LET att == AttemptsAfter(p)
             IN  /\ sendOut'[p].status = "sent" /\ sendOut'[p].success
                 /\ sendOut'[p].provider = procs[p].actual
                 /\ RecordAfter(p).status = "sent" /\ RecordAfter(p).provider = procs[p].actual
                 /\ procs[p].emailId \in sentEmails'
                 /\ Len(att) >= 1
                 /\ att[Len(att)].status = "success"
                 /\ att[Len(att)].provider = procs[p].actual
                 /\ \A i \in 1..(Len(att) - 1) : att[i].status \in {"failed", "skipped"} ]_vars

\* C14 witness: the first provider failed once and then succeeded: the
\* sendEmail has returned sent with it and the record is (failed, success).
C14_Witness ==
  \E p \in Procs :
    /\ sendOut[p].status = "sent" /\ sendOut[p].provider = 0
    /\ procs[p].pc = "idle"
    /\ AttemptsOf(emailStatuses, attemptsHeap, sendOut[p].emailId)
         = << [provider |-> 0, attempt |-> 1, status |-> "failed", error |-> "error"],
              [provider |-> 0, attempt |-> 2, status |-> "success", error |-> "none"] >>

\* The delay the backoff rule prescribes after the k-th failed attempt.
BackoffDelay(k) ==
  IF initialRetryDelay * 2^(k - 1) <= maxRetryDelay
  THEN initialRetryDelay * 2^(k - 1) ELSE maxRetryDelay

\* C15: after the k-th failed attempt on a provider, k < maxRetries, the
\* sendEmail sleeps min(initialRetryDelay * 2^(k-1), maxRetryDelay) and then
\* makes attempt k+1 on the same provider; after the maxRetries-th failed
\* attempt it does not sleep; the delays calculateRetryDelay gives are
\* non-decreasing in k and never exceed maxRetryDelay.
C15_Backoff ==
  [][ /\ \A p \in Procs :
           /\ ( /\ Resume(p) /\ procs[p].outcome # "ok"
                /\ procs'[p].ret # "type_error" ) =>
                IF procs[p].attempt < maxRetries
                THEN /\ procs'[p].pc = "sleeping"
                     /\ procs'[p].wakeAt = now + BackoffDelay(procs[p].attempt)
                     /\ procs'[p].attempt = procs[p].attempt
                     /\ procs'[p].actual = procs[p].actual
                ELSE /\ procs'[p].pc # "sleeping"
                     /\ procs'[p].pc \in {"calling", "settled"} => procs'[p].attempt = 1
           /\ (Wake(p) /\ procs'[p].ret # "type_error") =>
                /\ now >= procs[p].wakeAt
                /\ procs'[p].attempt = procs[p].attempt + 1
                /\ procs'[p].actual = procs[p].actual
                /\ procs'[p].pc \in {"calling", "settled"}
           /\ procs[p].pc = "sleeping" =>
                (procs'[p] = procs[p] \/ Wake(p))
      /\ \A k \in 1..MaxAttemptNo :
           /\ ES_calculateRetryDelay(k) = BackoffDelay(k)
           /\ ES_calculateRetryDelay(k) <= ES_calculateRetryDelay(k + 1)
           /\ ES_calculateRetryDelay(k) <= maxRetryDelay ]_vars

\* C15 witness: after its first attempt failed and the delay has passed, a
\* sendEmail is at its second attempt on the same provider.
C15_Witness ==
  \E p \in Procs :
    /\ procs[p].pc = "calling" /\ procs[p].attempt = 2
    /\ ~sendHist[p].overlapped
    /\ now >= BackoffDelay(1)
    /\ AttemptsOf(emailStatuses, attemptsHeap, procs[p].emailId)
         = << [provider |-> procs[p].actual, attempt |-> 1, status |-> "failed", error |-> "error"],
              [provider |-> procs[p].actual, attempt |-> 2, status |-> "attempting", error |-> "none"] >>

DrainPopsHead ==
  ((DrainStart \/ DrainNext) /\ ~Q_isEmpty(emailQueue)) =>
    /\ drain'.pc = "popped"
    /\ drain'.emailData = Head(emailQueue.queue).emailData
    /\ emailQueue'.queue = Tail(emailQueue.queue)

\* processQueue calls sendEmail for the item it popped, and only once its
\* previous sendEmail is over.
DrainSendsInTurn ==
  /\ DrainSend =>
       /\ procs[DrainProc].pc = "idle"
       /\ procs'[DrainProc].pc # "idle" => procs'[DrainProc].emailId = drain.emailData
       /\ procs'[DrainProc].pc = "idle" => sendOut'[DrainProc].emailId = drain.emailData
  /\ (DrainNext \/ DrainStart) => procs[DrainProc].pc = "idle"

\* processQueue returns in this step.
DrainReturns ==
  \/ DrainNext /\ drain'.pc = "off"
  \/ DrainStart /\ drain'.pc = "off"

\* C17 as stated: processQueue pops the items one at a time in queue order
\* and sends each, never starting a sendEmail before the previous one is
\* over, and goes on whatever a sendEmail returned; when it returns, no
\* queueEmail (and no reset) having cut in, the queue is empty and every id
\* it popped has a record.
C17_Drain ==
  [][ /\ DrainPopsHead
      /\ DrainSendsInTurn
      /\ (DrainReturns /\ ~drainHist.disturbed) =>
           /\ Q_isEmpty(emailQueue')
           /\ \A emailId \in drainHist.ids : emailStatuses'[emailId].status # "absent" ]_vars

NoSendInFlight == \A p \in Procs : procs[p].pc = "idle"

\* A sendEmail for this id has returned status sent to some caller.
PreviouslySent(emailId) ==
  \E q \in Procs : sendOut[q].status = "sent" /\ sendOut[q].emailId = emailId

\* C19: reset(), called while no sendEmail is under way, leaves the service
\* as the constructor made it: sentEmails and the status map empty, every
\* breaker CLOSED with no failures counted, the rate limiter's window
\* empty, the queue empty and currentProviderIndex 0. A sendEmail for an id
\* that was sent before and is no longer in sentEmails (a reset has cleared
\* it) is not answered already_sent: it goes through the rate limiter and
\* gets a record of its own.
C19_Reset ==
  [][ /\ (Reset /\ NoSendInFlight) =>
           /\ sentEmails' = {}
           /\ \A emailId \in Ids : emailStatuses'[emailId] = AbsentStatus
           /\ \A k \in Providers :
                circuitBreakers'[k] = CB_new(ServiceThreshold, ServiceTimeout)
           /\ rateLimiter' = RL_new(ServiceLimit, ServiceWindow)
           /\ emailQueue' = Q_new
           /\ currentProviderIndex' = 0
      /\ \A p \in Procs, emailId \in Ids :
           (SendStarts(p, emailId) /\ PreviouslySent(emailId) /\ emailId \notin sentEmails) =>
             /\ sendOut'[p].status # "already_sent"
             /\ rateLimiter' = RL_allowRequest(rateLimiter, now).rl
             /\ emailStatuses'[emailId].status \in {"processing", "rate_limited", "failed"}
    ]_vars

\* After a reset, an id that had been sent is being sent afresh: it is not
\* in sentEmails, its record is a new one in status processing and a
\* provider call for it is pending.
C19_Witness ==
  \E p \in Procs, emailId \in Ids :
    /\ PreviouslySent(emailId)
    /\ emailId \notin sentEmails
    /\ procs[p].pc # "idle"
    /\ procs[p].emailId = emailId
    /\ emailStatuses[emailId].status = "processing"

(* ------------------------ properties of sentEmails --------------------- *)

\* Caller p's sendEmail ends in this step with one of these statuses.
SendEndsWith(p, statuses) ==
  /\ \/ Finish(p)
     \/ \E emailId \in Ids : SendStarts(p, emailId) /\ procs'[p].pc = "idle"
  /\ sendOut'[p].status \in statuses

\* C20: an id joins sentEmails only as a sendEmail for that id resumes from a
\* sendWithRetryAndFallback that returned success, which it does only after
\* a provider call for it resolved and the success entry was written into
\* the attempts array; a sendEmail that ends failed, rate_limited or
\* already_sent adds nothing to sentEmails.
C20_SentOnlyAfterSuccess ==
  [][ /\ \A emailId \in Ids :
           (emailId \in sentEmails' /\ emailId \notin sentEmails) =>
             \E p \in Procs :
               /\ Finish(p)
               /\ procs[p].emailId = emailId
               /\ procs[p].ret = "sent"
               /\ sendHist[p].recorded
      /\ \A p \in Procs :
           (sendHist'[p].recorded /\ ~sendHist[p].recorded) =>
             /\ Resume(p)
             /\ procs[p].outcome = "ok"
             /\ procs'[p].ret = "sent"
      /\ \A p \in Procs :
           SendEndsWith(p, {"failed", "rate_limited", "already_sent"}) =>
             sentEmails' = sentEmails
    ]_vars

\* An id is in sentEmails, its record ending with the success entry, while
\* sendEmail calls have ended failed, and rate_limited or already_sent.
C20_Witness ==
  \E emailId \in sentEmails, p \in Procs, q \in Procs :
    /\ emailStatuses[emailId].status = "sent"
    /\ emailStatuses[emailId].attempts # Undefined
    /\ LET att == attemptsHeap[emailStatuses[emailId].attempts]
       IN  Len(att) >= 1 /\ att[Len(att)].status = "success"
    /\ sendOut[p].status = "sent"
    /\ sendOut[q].status \in {"failed", "rate_limited", "already_sent"}

(* --------------- properties of overlapping sendEmail calls ------------- *)

\* A sequence without repeated elements.
NoRepeats(seq) == \A i, j \in 1..Len(seq) : seq[i] = seq[j] => i = j

\* sendWithRetryAndFallback of caller p ran its outer loop to the end and
\* threw, and sendEmail returns the failed status for it in this step.
FailsAfterLoop(p) ==
  /\ Finish(p)
  /\ procs[p].ret \in {"all_failed", "unavailable"}
  /\ sendOut'[p].status = "failed"

\* C21 as stated: the outer loop of a sendEmail looks first at the provider
\* currentProviderIndex designated when the call began and then at the
\* following ones, wrapping round, no provider twice; a call that ends
\* failed after its loop has looked at every provider exactly once. Other
\* sendEmail calls may overlap and move currentProviderIndex.
C21_BackendIteration ==
  [][ \A p \in Procs :
        /\ LET seen == sendHist'[p].considered
           IN  /\ NoRepeats(seen)
               /\ \A i \in 1..Len(seen) :
                    seen[i] = (sendHist'[p].firstProvider + i - 1) % NumProviders
        /\ FailsAfterLoop(p) =>
             /\ NoRepeats(sendHist[p].considered)
             /\ {sendHist[p].considered[i] : i \in 1..Len(sendHist[p].considered)} = Providers
    ]_vars

\* C22 as stated: the record a sendEmail returns (sent or failed) lists in
\* its attempts exactly the entries this call pushed, in the order it pushed
\* them and as it finalized them, whatever sendEmail calls overlapped it.
C22_AttemptOrdering ==
  [][ \A p \in Procs :
        (Finish(p) /\ sendOut'[p].status \in {"sent", "failed"}) =>
          AttemptsOf(emailStatuses', attemptsHeap', procs[p].emailId) = sendHist[p].made
    ]_vars

C24_OpenNeverConsumesRetry ==
  \A p \in Procs :
    LET made == sendHist[p].made
    IN  /\ \A i \in 1..Len(made) :
             ~(made[i].attempt >= 1 /\ made[i].status = "failed"
               /\ made[i].error = "circuit_open")
        /\ (procs[p].pc = "sleeping" /\ Len(made) >= 1) =>
             made[Len(made)].error # "circuit_open"

(* ---------------- properties of a processBatch run --------------------- *)

\* The run r ends in this step (by return or by throwing).
RunEnds(r) == batchRuns[r].pc # "idle" /\ batchRuns'[r].pc = "idle"

\* The run r, called with batchSize >= 1, ends in this step and nothing else
\* has touched the queue since it began.
RunEndsUndisturbed(r) ==
  /\ RunEnds(r)
  /\ batchRuns[r].batchSize >= 1
  /\ ~batchHist[r].disturbed

\* C25 as stated: a processBatch with batchSize >= 1 that no other queue
\* operation cuts in on returns one result for each e-mail that was queued
\* when it began, in queue order, a failed processor giving the captured
\* error with its e-mail and stopping nothing; the queue is then empty.
C25_BatchResults ==
  [][ \A r \in Runs :
        RunEndsUndisturbed(r) =>
          /\ batchRuns'[r].out = "results"
          /\ [k \in 1..Len(batchRuns'[r].results) |-> batchRuns'[r].results[k].emailData]
               = batchHist[r].atStart
          /\ Q_isEmpty(emailQueue')
    ]_vars

\* C26 as stated: isProcessing() is true for as long as a processBatch run
\* is active; when a run ends, by return or by throwing, isProcessing() is
\* false, and a processBatch called then is accepted.
C26_ProcessingFlag ==
  [][ /\ ActiveRuns' # {} => emailQueue'.processing
      /\ \A r \in Runs :
           (RunEnds(r) /\ ActiveRuns' = {}) => ~emailQueue'.processing
      /\ \A r \in Runs, batchSize \in 0..MaxBatch :
           (PBStart(r, batchSize) /\ ~emailQueue.processing) =>
             batchRuns'[r].out # "already_processing"
    ]_vars

(* --------------- further properties of the CircuitBreaker -------------- *)

\* C27: a call that succeeds while the breaker is CLOSED sets failureCount to
\* 0 and leaves it CLOSED; so the breaker leaves CLOSED only through a failed
\* call that completes a run of at least threshold failed calls with no
\* successful call among them: failures with a success between them do not
\* add up.
C27_SuccessResetsCount ==
  [][ /\ \A c \in Callers :
           (CBSettle(c, TRUE) /\ breaker.state = "CLOSED") =>
             /\ breaker'.failureCount = 0
             /\ breaker'.state = "CLOSED"
      /\ (breaker.state = "CLOSED" /\ breaker'.state # "CLOSED") =>
           /\ \E c \in Callers : CBSettle(c, FALSE)
           /\ cbStreak' >= breaker.threshold
    ]_vars

\* A success has wiped counted failures, another call has failed since, and
\* the breaker, which needs two failures to open, is CLOSED with one counted.
C27_Witness ==
  /\ cbAbsorbed
  /\ breaker.threshold = 2
  /\ breaker.state = "CLOSED"
  /\ breaker.failureCount = 1
  /\ breaker.nextAttempt = Null

\* A call has just been let through an OPEN breaker: the breaker is HALF_OPEN
\* and the operation of that call is invoked.
TrialUnderWay ==
  /\ breaker.state = "HALF_OPEN"
  /\ \E c \in Callers : cbCalls[c].pc = "invoked" /\ cbCalls[c].trial

\* C30: OPEN is not terminal. A call made while the breaker is OPEN and
\* Date.now() is before nextAttempt is rejected and leaves the breaker, its
\* nextAttempt included, as it is; a call made while it is OPEN at or after
\* nextAttempt turns it HALF_OPEN and invokes the operation; and with time
\* advancing and calls arriving an OPEN breaker gets to admit such a trial.
C30_OpenNotTerminal ==
  /\ [][ \A c \in Callers :
           (CBCall(c) /\ breaker.state = "OPEN") =>
             IF now < Num(breaker.nextAttempt)
             THEN /\ breaker' = breaker
                  /\ cbCalls'[c].pc = "idle"
                  /\ cbCalls'[c].out = "circuit_open"
             ELSE /\ breaker'.state = "HALF_OPEN"
                  /\ breaker'.nextAttempt = breaker.nextAttempt
                  /\ cbCalls'[c].pc = "invoked"
       ]_vars
  /\ (breaker.state = "OPEN") ~> TrialUnderWay

\* One caller's last call was rejected by the OPEN breaker, and the other
\* caller's call, made once nextAttempt was reached, is the trial.
C30_Witness ==
  /\ TrialUnderWay
  /\ now >= Num(breaker.nextAttempt)
  /\ \E c \in Callers :
       /\ cbCalls[c].pc = "idle"
       /\ cbCalls[c].out = "circuit_open"

(* ------------------ properties of currentProviderIndex ----------------- *)

\* Caller p's sendWithRetryAndFallback resumes in this step from a provider
\* call that resolved.
AttemptSucceeds(p) == Resume(p) /\ procs[p].outcome = "ok"

\* C28: currentProviderIndex is set by a successful attempt, to the index of
\* the provider that served it, and by reset, to 0, and changes in no other
\* step; in particular not as a sendEmail ends failed, rate_limited or
\* already_sent. The outer loop of a sendEmail looks first at the provider
\* currentProviderIndex names as the call begins.
C28_StickyIndex ==
  [][ /\ \A p \in Procs : AttemptSucceeds(p) => currentProviderIndex' = procs[p].actual
      /\ Reset => currentProviderIndex' = 0
      /\ currentProviderIndex' # currentProviderIndex =>
           \/ Reset
           \/ \E p \in Procs : AttemptSucceeds(p)
      /\ \A p \in Procs :
           SendEndsWith(p, {"failed", "rate_limited", "already_sent"}) =>
             currentProviderIndex' = currentProviderIndex
      /\ \A p \in Procs, emailId \in Ids :
           (SendStarts(p, emailId) /\ sendHist'[p].considered # <<>>) =>
             sendHist'[p].considered[1] = currentProviderIndex
    ]_vars

\* A sendEmail has been served by the second provider, currentProviderIndex
\* names it, and a later sendEmail has begun with it.
C28_Witness ==
  \E p \in Procs, q \in Procs :
    /\ sendOut[p].status = "sent"
    /\ sendOut[p].provider = 1
    /\ currentProviderIndex = 1
    /\ procs[q].pc = "calling"
    /\ procs[q].actual = 1
    /\ sendHist[q].considered = <<1>>

(* ------------------- termination of sendEmail -------------------------- *)

\* The provider invocations caller p's sendEmail has made so far: its
\* numbered attempts, less those the breaker refused.
Invocations(p) ==
  LET made == sendHist[p].made
  IN  Cardinality({i \in 1..Len(made) :
        /\ made[i].attempt >= 1
        /\ made[i].error # "circuit_open"
        /\ ~(i = Len(made) /\ procs[p].pc = "settled"
             /\ procs[p].outcome = "circuit_open")})

\* The backoff sleeps caller p's sendEmail has begun so far: one after each
\* failed attempt that was not the last on its provider.
Sleeps(p) ==
  LET made == sendHist[p].made
  IN  Cardinality({i \in 1..Len(made) :
        /\ made[i].status = "failed"
        /\ ES_retriesLeft(made[i].attempt)
        /\ made[i].attempt >= 1})

\* C29: while every provider call settles, each sendEmail comes to an end
\* (no caller stays inside a sendEmail for ever: it is outside one again and
\* again), having invoked a provider at most maxRetries * (number of
\* providers) times and slept at most (maxRetries - 1) * (number of
\* providers) times.
C29_SendTerminates ==
  /\ [](\A p \in Procs :
          /\ Invocations(p) <= maxRetries * NumProviders
          /\ Sleeps(p) <= (maxRetries - 1) * NumProviders)
  /\ \A p \in Procs : []<>(procs[p].pc = "idle")

\* A sendEmail has used every attempt on every provider and is about to
\* return failed.
C29_Witness ==
  \E p \in Procs :
    /\ procs[p].pc = "returning"
    /\ procs[p].ret = "all_failed"
    /\ Invocations(p) = maxRetries * NumProviders
    /\ Sleeps(p) = (maxRetries - 1) * NumProviders

(* --------------------- properties of a HALF_OPEN breaker --------------- *)

\* The operation of a call that was let through the OPEN breaker as its trial
\* is pending, and the breaker is still HALF_OPEN.
TrialInFlight(d) ==
  /\ breaker.state = "HALF_OPEN"
  /\ cbCalls[d].pc = "invoked"
  /\ cbCalls[d].trial

\* C31: while the breaker is HALF_OPEN and the operation of the trial it
\* admitted is pending, another call through the breaker does not invoke its
\* operation.
C31_SingleTrial ==
  [][ \A c, d \in Callers :
        (c # d /\ TrialInFlight(d) /\ CBCall(c)) => cbCalls'[c].pc # "invoked"
    ]_vars

(* ---------------- properties of configure and reset -------------------- *)

\* The timestamps of the limiter that are newer than t minus its window.
Retained(rl, t) == SelectSeq(rl.requests, LAMBDA ts : ts > t - rl.windowMs)

\* C32: configure replaces limit and windowMs and keeps the timestamps; the
\* next allowRequest filters them against the window then in force and denies
\* when as many as the limit then in force, or more, are retained, so with
\* limit 0 it always denies; reset empties the timestamps and keeps the
\* limit, and getRemainingRequests returns the limit from then on until the
\* next admission.
C32_ConfigureKeepsHistory ==
  [][ /\ RLConfigure =>
           /\ rateLimiter'.requests = rateLimiter.requests
           /\ rlOut'.op = "configure"
      /\ RLAllowRequest =>
           LET kept == Retained(rateLimiter, now)
           IN  /\ Len(kept) >= rateLimiter.limit =>
                    /\ ~rlOut'.ok
                    /\ rateLimiter'.requests = kept
               /\ rateLimiter.limit = 0 => ~rlOut'.ok
               /\ rateLimiter'.limit = rateLimiter.limit
               /\ rateLimiter'.windowMs = rateLimiter.windowMs
      /\ RLReset =>
           /\ rateLimiter'.requests = <<>>
           /\ rateLimiter'.limit = rateLimiter.limit
           /\ \A t \in now..MaxTime :
                RL_getRemainingRequests(rateLimiter', t).n = rateLimiter'.limit
      /\ (RLGetRemainingRequests /\ rateLimiter.requests = <<>>) =>
           rlOut'.n = rateLimiter.limit
    ]_vars

\* The limit was lowered below the number of timestamps held, and the request
\* made after that has just been denied with all of them retained.
C32_Witness ==
  /\ rlReconfigured
  /\ rlOut.op = "allowRequest" /\ ~rlOut.ok
  /\ rateLimiter.limit >= 1
  /\ Len(rateLimiter.requests) > rateLimiter.limit

(* --------------------- properties of emailStatuses --------------------- *)

IsPrefix(s, t) == Len(s) <= Len(t) /\ SubSeq(t, 1, Len(s)) = s

\* C33: a record that emailStatuses holds for an id stays until reset, and a
\* sendEmail for an id that has a record keeps, in the record it leaves at
\* its first await or return, the attempts that were recorded before.
C33_OneRecordNeverLost ==
  [][ /\ \A emailId \in Ids :
           (emailStatuses[emailId].status # "absent" /\ ~Reset) =>
             emailStatuses'[emailId].status # "absent"
      /\ \A p \in Procs, emailId \in Ids :
           (Send(p, emailId) /\ emailStatuses[emailId].status # "absent") =>
             IsPrefix(AttemptsOf(emailStatuses, attemptsHeap, emailId),
                      AttemptsOf(emailStatuses', attemptsHeap', emailId))
    ]_vars

(* ------------------- invariants of the CircuitBreaker ------------------ *)

\* C34: a breaker that is OPEN or HALF_OPEN has counted at least threshold
\* failures, and a breaker that is OPEN has its nextAttempt set.
C34_BreakerInvariant ==
  /\ breaker.state \in {"OPEN", "HALF_OPEN"} => breaker.failureCount >= breaker.threshold
  /\ breaker.state = "OPEN" => breaker.nextAttempt # Null

\* The breaker is OPEN with its failures counted and its nextAttempt set,
\* while the last call of one caller, which was no trial, returned a result.
C34_Witness ==
  /\ breaker.state = "OPEN"
  /\ breaker.failureCount >= breaker.threshold
  /\ breaker.nextAttempt # Null
  /\ \E c \in Callers :
       /\ cbCalls[c].pc = "idle"
       /\ cbCalls[c].out = "result"
       /\ ~cbCalls[c].trial

\* Caller c's call() ends in this step with the circuit-open error.
Rejected(c) == CBCall(c) /\ cbCalls'[c].out = "circuit_open"

\* C35: a call rejected with the circuit-open error leaves state,
\* failureCount, lastFailureTime and nextAttempt of the breaker as they were
\* and fires no onStateChange notification.
C35_RejectionChangesNothing ==
  [][ \A c \in Callers :
        Rejected(c) =>
          /\ breaker'.state = breaker.state
          /\ breaker'.failureCount = breaker.failureCount
          /\ breaker'.lastFailureTime = breaker.lastFailureTime
          /\ breaker'.nextAttempt = breaker.nextAttempt
          /\ cbFired' = <<>>
    ]_vars

\* The last call of every caller was rejected, the later one without a
\* notification, by a breaker that has failures counted and timers set.
C35_Witness ==
  /\ \A c \in Callers : cbCalls[c].pc = "idle" /\ cbCalls[c].out = "circuit_open"
  /\ cbFired = <<>>
  /\ breaker.state = "OPEN"
  /\ breaker.lastFailureTime # Null
  /\ breaker.failureCount >= breaker.threshold

(* ------------------ properties of circuitBreakers ---------------------- *)

\* The breakers that this step changes.
Touched == {k \in Providers : circuitBreakers'[k] # circuitBreakers[k]}

\* Caller p's provider call settles in this step (onSuccess or onFailure
\* runs), or p's sendWithRetryAndFallback reaches call() in it, which
\* rejects or invokes the provider.
EndsCall(p) == \E ok \in BOOLEAN : Settle(p, ok)
BeginsCall(p) ==
  /\ (\E emailId \in Ids : Send(p, emailId)) \/ Resume(p) \/ Wake(p)
  /\ procs'[p].pc \in {"calling", "settled"}

\* C36: each provider has its own breaker. The success or failure of a call
\* to a provider changes no breaker but that provider's, and so does a call
\* that is rejected or let through; apart from reset, a step changes a
\* breaker only if a call to its provider ends or begins in that step.
C36_BreakersIndependent ==
  [][ /\ \A p \in Procs :
           /\ EndsCall(p) => Touched \subseteq {procs[p].actual}
           /\ BeginsCall(p) => Touched \subseteq {procs'[p].actual}
      /\ ~Reset =>
           \A k \in Touched :
             \E p \in Procs :
               \/ EndsCall(p) /\ procs[p].actual = k
               \/ BeginsCall(p) /\ procs'[p].actual = k
    ]_vars

\* The first provider's breaker has opened and the second one's, whose
\* provider has just served a call, is CLOSED with nothing counted.
C36_Witness ==
  /\ circuitBreakers[0].state = "OPEN"
  /\ circuitBreakers[1].state = "CLOSED"
  /\ circuitBreakers[1].failureCount = 0
  /\ \E p \in Procs :
       /\ procs[p].pc = "settled"
       /\ procs[p].outcome = "ok"
       /\ procs[p].actual = 1

(* ------------------- properties of the already_sent answer ------------- *)

\* Caller p's sendEmail for the id is answered already_sent in this step.
AnsweredAlreadySent(p, emailId) ==
  Send(p, emailId) /\ sendOut'[p].status = "already_sent"

\* C37: a sendEmail answered already_sent leaves the rate limiter (limit,
\* window and the timestamps held), the records and their attempts,
\* sentEmails, every breaker, the queue and currentProviderIndex as they were.
C37_AlreadySentChangesNothing ==
  [][ \A p \in Procs, emailId \in Ids :
        AnsweredAlreadySent(p, emailId) =>
          /\ rateLimiter' = rateLimiter
          /\ emailStatuses' = emailStatuses
          /\ attemptsHeap' = attemptsHeap
          /\ sentEmails' = sentEmails
          /\ circuitBreakers' = circuitBreakers
          /\ emailQueue' = emailQueue
          /\ currentProviderIndex' = currentProviderIndex
    ]_vars

\* A sendEmail was answered already_sent, and of the two sendEmail calls
\* made only the first holds a slot of the rate limiter.
C37_Witness ==
  /\ calls = 2
  /\ Len(rateLimiter.requests) = 1
  /\ \E p \in Procs :
       /\ sendOut[p].status = "already_sent"
       /\ sendOut[p].emailId \in sentEmails
       /\ emailStatuses[sendOut[p].emailId].status = "sent"

(* --------------- properties of a sendEmail for a failed id ------------- *)

\* Caller p's sendEmail ends in this step with the result failed, or with the
\* result rate_limited.
EndsFailed(p) == Finish(p) /\ sendOut'[p].status = "failed"
EndsRateLimited(p) ==
  (\E emailId \in Ids : Send(p, emailId)) /\ sendOut'[p].status = "rate_limited"

\* C38: a sendEmail that ends failed or rate_limited adds nothing to
\* sentEmails; and a sendEmail for an id that is not in sentEmails is not
\* answered already_sent: the rate limiter is asked and, when it admits the
\* request, the send goes on to the providers.
C38_FailedIdCanBeSentAgain ==
  [][ /\ \A p \in Procs :
           (EndsFailed(p) \/ EndsRateLimited(p)) => sentEmails' = sentEmails
      /\ \A p \in Procs, emailId \in Ids :
           (Send(p, emailId) /\ emailId \notin sentEmails) =>
             LET r == RL_allowRequest(rateLimiter, now)
             IN  /\ sendOut'[p].status # "already_sent"
                 /\ rateLimiter' = r.rl
                 /\ IF r.ok
                    THEN /\ procs'[p].pc # "idle"
                         /\ procs'[p].emailId = emailId
                         /\ emailStatuses'[emailId].status = "processing"
                    ELSE sendOut'[p].status = "rate_limited"
    ]_vars

\* A sendEmail for an id ended failed, and the sendEmail made for the same id
\* after it ended sent.
C38_Witness ==
  \E p, q \in Procs :
    /\ sendOut[p].status = "failed"
    /\ sendOut[q].status = "sent"
    /\ sendOut[q].emailId = sendOut[p].emailId
    /\ sendOut[q].emailId \in sentEmails
    /\ NoneInFlight

(* ------------------ invariants of sentEmails and emailStatuses --------- *)

\* getServiceHealth(): totalEmailsSent and totalEmailsTracked.
ES_totalEmailsSent(sent) == Cardinality(sent)
ES_totalEmailsTracked(st) == Cardinality({i \in Ids : st[i].status # "absent"})

\* C39: every id in sentEmails has a record in emailStatuses, with status
\* sent and success true; hence totalEmailsSent <= totalEmailsTracked.
C39_SentIdsHaveSentRecords ==
  /\ \A emailId \in sentEmails :
       /\ emailStatuses[emailId].status = "sent"
       /\ emailStatuses[emailId].success
  /\ ES_totalEmailsSent(sentEmails) <= ES_totalEmailsTracked(emailStatuses)

(* ------------------ properties of the record returned ------------------ *)

\* The attempts of the record just stored for the id are final: each is
\* success, failed or skipped, and at most one is success.
FinalAttempts(att) ==
  /\ \A i \in 1..Len(att) : att[i].status \in {"success", "failed", "skipped"}
  /\ Cardinality({i \in 1..Len(att) : att[i].status = "success"}) <= 1

\* C40: the record a sendEmail returns never has the status processing, and
\* when a sendEmail that went through sendWithRetryAndFallback returns, the
\* attempts of the record it returns hold no entry still attempting and at
\* most one success.
C40_ReturnedRecordsAreFinal ==
  [][ \A p \in Procs :
        /\ SendEndsWith(p, {"sent", "failed", "rate_limited", "already_sent", "processing"}) =>
             sendOut'[p].status # "processing"
        /\ (Finish(p) /\ sendOut'[p].status \in {"sent", "failed"}) =>
             /\ emailStatuses'[procs[p].emailId].status # "processing"
             /\ FinalAttempts(AttemptsOf(emailStatuses', attemptsHeap', procs[p].emailId))
    ]_vars

====
